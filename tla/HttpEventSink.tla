---------------------------- MODULE HttpEventSink ----------------------------
(***************************************************************************)
(* The Rust HTTP sink (rust/telemetry-sink/src/http_event_sink.rs), the    *)
(* flush monitor that its thread ticks (rust/tracing/src/flush_monitor.rs) *)
(* and the part of the dispatch that creates and drops the sink.           *)
(*                                                                         *)
(* Any thread may call the sink: send() takes the sender mutex, increments *)
(* queue_size, pushes into an unbounded channel and releases the mutex.    *)
(* One thread empties the channel, posting to the ingestion server.  When  *)
(* the channel stays empty for the flush period it ticks the monitor,      *)
(* which flushes the log and metrics streams, i.e. calls send() from the   *)
(* sink's own thread.  Dropping the sink closes the sender and joins the   *)
(* thread.                                                                 *)
(*                                                                         *)
(* Event payloads are abstracted to (stream, block number); what is in a   *)
(* stream when it is flushed belongs to EventStream.tla, so here a flush   *)
(* finds a block to send or finds nothing, nondeterministically.           *)
(***************************************************************************)
EXTENDS Integers, Sequences, FiniteSets

CONSTANTS
    Threads,         \* application threads
    Traced,          \* those that own a thread stream
    Main,            \* the thread that creates and shuts down the dispatch
    SinkThread,      \* the thread spawned by HttpEventSink::new
    Log, Metrics,    \* the two streams shared by all threads
    None,            \* no message, no stream, no lock holder
    max_queue_size,  \* backlog from which blocks are dropped (an isize)
    MaxRetries,      \* length of the metadata retry strategy
    MaxBlocks,       \* bound: per stream, blocks flushed
    MaxTimeouts      \* bound: receive timeouts

Callers == Threads \cup {SinkThread}

(* A thread stream is named after its thread. *)
Streams == {Log, Metrics} \cup Traced

(* SinkEvent: the three Process*Block variants differ by their stream. *)
SinkEvent == [kind   : {"Startup", "InitStream", "Block"},
              stream : Streams \cup {None},
              seq    : Nat]

Startup       == [kind |-> "Startup", stream |-> None, seq |-> 0]
InitStream(s) == [kind |-> "InitStream", stream |-> s, seq |-> 0]
Block(s, n)   == [kind |-> "Block", stream |-> s, seq |-> n]

ASSUME ConstantsAssumption ==
    /\ Main \in Threads
    /\ Traced \subseteq Threads
    /\ SinkThread \notin Threads
    /\ Log # Metrics
    /\ {Log, Metrics} \cap (Threads \cup {SinkThread}) = {}
    /\ None \notin Threads \cup {SinkThread, Log, Metrics} \cup SinkEvent
    /\ max_queue_size \in Int
    /\ MaxRetries \in Nat /\ MaxTimeouts \in Nat
    /\ MaxBlocks \in [Streams -> Nat]

VARIABLES
    sender,            \* TRUE while the Option<Sender> is Some
    sender_lock,       \* who holds the mutex around it
    receiver,          \* TRUE while the sink thread owns the receiver
    queue,             \* the mpsc channel
    queue_size,        \* the shared AtomicIsize
    spc, smsg,         \* per caller: progress and argument of send()
    booted,            \* messages sent by Dispatch::new, 0..3
    dispatch,          \* G_DISPATCH: "none", or the sink it holds
    next,              \* per stream: 0 before it is declared, then next block
    wpc, current, attempts, opt_process_info,  \* thread_proc_impl
    refs,              \* holders of a strong reference to the sink
    dpc,               \* progress of shutdown_telemetry on Main
    accepted, handled, \* history: messages queued, how many are done with
    posted,            \* history: http requests executed, in order
    fate,              \* history: the messages that were never posted
    drift              \* history: queue_size decrements without a message

channel  == <<sender, sender_lock, receiver, queue, queue_size>>
calls    == <<spc, smsg>>
streams  == <<booted, dispatch, next>>
worker   == <<wpc, current, attempts, opt_process_info>>
shutdown == <<refs, dpc>>
history  == <<accepted, handled, posted, fate, drift>>
vars     == <<channel, calls, streams, worker, shutdown, history>>

(* Dropped over max_queue_size, or rejected for want of a Startup message. *)
Fates == {"dropped", "rejected"}

ChannelOK ==
    /\ sender \in BOOLEAN
    /\ sender_lock \in Callers \cup {None}
    /\ receiver \in BOOLEAN
    /\ queue \in Seq(SinkEvent)
    /\ queue_size \in Int

CallsOK ==
    /\ spc \in [Callers -> {"idle", "lock", "push", "error", "stuck"}]
    /\ smsg \in [Callers -> SinkEvent \cup {None}]

StreamsOK ==
    /\ booted \in 0 .. 3
    /\ dispatch \in {"none", "http", "null"}
    /\ next \in [Streams -> Nat]

WorkerOK ==
    /\ wpc \in {"start", "recv", "handle", "sub", "tick", "busy", "flushLog",
                "flushMetrics", "drop", "exited", "panicked", "stuck"}
    /\ current \in SinkEvent \cup {None}
    /\ attempts \in 0 .. MaxRetries
    /\ opt_process_info \in BOOLEAN

ShutdownOK ==
    /\ refs \subseteq {"dispatch", "tick"}
    /\ dpc \in {"run", "flushLog", "flushMetrics", "release", "lock", "join",
                "store", "done"}

HistoryOK ==
    /\ accepted \in Seq(SinkEvent)
    /\ handled \in Nat
    /\ posted \in Seq(SinkEvent)
    /\ fate \in [Fates -> SUBSET SinkEvent]
    /\ drift \in 0 .. MaxTimeouts

(***************************************************************************)
(* Every variable stays in its domain; in particular a metadata request is *)
(* retried at most MaxRetries times.                                       *)
(***************************************************************************)
TypeOK == ChannelOK /\ CallsOK /\ StreamsOK /\ WorkerOK /\ ShutdownOK /\ HistoryOK

Init ==
    /\ sender = TRUE
    /\ sender_lock = None
    /\ receiver = TRUE
    /\ queue = <<>>
    /\ queue_size = 0
    /\ spc = [c \in Callers |-> "idle"]
    /\ smsg = [c \in Callers |-> None]
    /\ booted = 0
    /\ dispatch = "none"
    /\ next = [s \in Streams |-> 0]
    /\ wpc = "start"
    /\ current = None
    /\ attempts = 0
    /\ opt_process_info = FALSE
    /\ refs = {"dispatch"}
    /\ dpc = "run"
    /\ accepted = <<>>
    /\ handled = 0
    /\ posted = <<>>
    /\ fate = [f \in Fates |-> {}]
    /\ drift = 0

-----------------------------------------------------------------------------
(***************************************************************************)
(* HttpEventSink::send, in three steps: lock the mutex and count the       *)
(* message, push it, and, when the receiver is gone, report the error.     *)
(***************************************************************************)

CallSend(c, m) ==
    /\ spc[c] = "idle"
    /\ spc' = [spc EXCEPT ![c] = "lock"]
    /\ smsg' = [smsg EXCEPT ![c] = m]

Return(c) ==
    /\ spc' = [spc EXCEPT ![c] = "idle"]
    /\ smsg' = [smsg EXCEPT ![c] = None]

(* The message is discarded when the sender is None. *)
SendLock(c) ==
    /\ spc[c] = "lock"
    /\ sender_lock = None
    /\ \/ /\ sender
          /\ sender_lock' = c
          /\ queue_size' = queue_size + 1
          /\ spc' = [spc EXCEPT ![c] = "push"]
          /\ UNCHANGED smsg
       \/ /\ ~sender
          /\ Return(c)
          /\ UNCHANGED <<sender_lock, queue_size>>
    /\ UNCHANGED <<sender, receiver, queue, streams, worker, shutdown, history>>

(* Mutant: a stack instead of a queue. *)
EnqueueFirst(m) == <<m>> \o queue

Enqueue(m) == Append(queue, m)

SendPush(c) ==
    /\ spc[c] = "push"
    /\ \/ /\ receiver
          /\ queue' = Enqueue(smsg[c])
          /\ accepted' = Append(accepted, smsg[c])
          /\ sender_lock' = None
          /\ Return(c)
          /\ UNCHANGED queue_size
       \/ /\ ~receiver
          /\ queue_size' = queue_size - 1
          /\ spc' = [spc EXCEPT ![c] = "error"]
          /\ UNCHANGED <<queue, accepted, sender_lock, smsg>>
    /\ UNCHANGED <<sender, receiver, streams, worker, shutdown,
                   handled, posted, fate, drift>>

(* A flush holds the stream's mutex until the sink's handler returns. *)
Flushing(d, s) == spc[d] # "idle" /\ smsg[d].kind = "Block" /\ smsg[d].stream = s

(* Mutant: the stream mutex is released before the sink is called. *)
StreamFreeEarly(c, s) == TRUE

StreamFree(c, s) == \A d \in Callers \ {c} : ~Flushing(d, s)

(***************************************************************************)
(* error!("{}", e) runs with the sender mutex held.  Before the dispatch   *)
(* is installed it does nothing.  Afterwards it locks the log stream,      *)
(* which a caller flushing that very stream already holds, and may find    *)
(* the log block full, in which case it re-enters send().  Both wait on a  *)
(* mutex the thread itself holds.                                          *)
(***************************************************************************)
SendError(c) ==
    /\ spc[c] = "error"
    /\ \/ /\ dispatch = "http" => ~Flushing(c, Log) /\ StreamFree(c, Log)
          /\ sender_lock' = None
          /\ Return(c)
       \/ /\ dispatch = "http"
          /\ spc' = [spc EXCEPT ![c] = "stuck"]
          /\ UNCHANGED <<sender_lock, smsg>>
    /\ UNCHANGED <<sender, receiver, queue, queue_size, streams, worker,
                   shutdown, history>>

Send(c) == SendLock(c) \/ SendPush(c) \/ SendError(c)

-----------------------------------------------------------------------------
(***************************************************************************)
(* The application: Dispatch::new announces the process and the two shared *)
(* streams before G_DISPATCH is set, so no other call can come first.      *)
(***************************************************************************)

BootMessage == <<Startup, InitStream(Log), InitStream(Metrics)>>

DispatchNew ==
    /\ booted < 3
    /\ CallSend(Main, BootMessage[booted + 1])
    /\ booted' = booted + 1
    /\ next' = [next EXCEPT ![Log]     = IF booted = 1 THEN 1 ELSE @,
                            ![Metrics] = IF booted = 2 THEN 1 ELSE @]
    /\ UNCHANGED <<channel, dispatch, worker, shutdown, history>>

(* Mutant: the dispatch is published as soon as the process is announced. *)
AnnouncedProcess == booted >= 1

Announced == booted = 3 /\ spc[Main] = "idle"

InitEventDispatch ==
    /\ Announced
    /\ dispatch = "none"
    /\ dispatch' = "http"
    /\ UNCHANGED <<channel, calls, booted, next, worker, shutdown, history>>

(* Once Main has reached the last reference other threads are quiescent.   *)
AppRunning(t) ==
    /\ dispatch = "http"
    /\ IF t = Main THEN dpc = "run" ELSE dpc \notin {"lock", "join", "store", "done"}

InitThreadStream(t) ==
    /\ AppRunning(t)
    /\ t \in Traced
    /\ next[t] = 0
    /\ CallSend(t, InitStream(t))
    /\ next' = [next EXCEPT ![t] = 1]
    /\ UNCHANGED <<channel, booted, dispatch, worker, shutdown, history>>

(* Dispatch::flush_*_buffer on a stream that is not empty. *)
CallFlush(c, s) ==
    /\ next[s] \in 1 .. MaxBlocks[s]
    /\ StreamFree(c, s)
    /\ CallSend(c, Block(s, next[s]))
    /\ next' = [next EXCEPT ![s] = @ + 1]
    /\ UNCHANGED <<booted, dispatch>>

(* The same on any stream: an empty one is left alone, and the null sink   *)
(* swallows the block.                                                     *)
FlushBuffer(c, s) ==
    \/ dispatch = "http" /\ CallFlush(c, s)
    \/ StreamFree(c, s) /\ UNCHANGED <<calls, streams>>

FlushStream(t, s) ==
    /\ AppRunning(t)
    /\ s \in {Log, Metrics, t}
    /\ CallFlush(t, s)
    /\ UNCHANGED <<channel, worker, shutdown, history>>

-----------------------------------------------------------------------------
(***************************************************************************)
(* The sink thread: thread_proc_impl.                                      *)
(***************************************************************************)

(* Returning drops the receiver and whatever the channel still holds. *)
DropReceiver == receiver' = FALSE /\ queue' = <<>>

ThreadStart ==
    /\ wpc = "start"
    /\ \/ wpc' = "recv" /\ UNCHANGED channel
       \/ /\ wpc' = "exited"             \* the http client cannot be built
          /\ DropReceiver
          /\ UNCHANGED <<sender, sender_lock, queue_size>>
    /\ UNCHANGED <<calls, streams, current, attempts, opt_process_info,
                   shutdown, history>>

Recv ==
    /\ wpc = "recv"
    /\ queue # <<>>
    /\ wpc' = "handle"
    /\ current' = Head(queue)
    /\ queue' = Tail(queue)
    /\ attempts' = 0
    /\ UNCHANGED <<sender, sender_lock, receiver, queue_size, calls, streams,
                   opt_process_info, shutdown, history>>

RecvTimeout ==
    /\ wpc = "recv"
    /\ queue = <<>>
    /\ sender
    /\ drift < MaxTimeouts
    /\ wpc' = "tick"
    /\ UNCHANGED <<channel, calls, streams, current, attempts,
                   opt_process_info, shutdown, history>>

(* Mutant: a closed sender ends the loop even if messages are left. *)
DisconnectedEarly == ~sender

Disconnected == queue = <<>> /\ ~sender

RecvDisconnected ==
    /\ wpc = "recv"
    /\ Disconnected
    /\ wpc' = "exited"
    /\ DropReceiver
    /\ UNCHANGED <<sender, sender_lock, queue_size, calls, streams, current,
                   attempts, opt_process_info, shutdown, history>>

(* Mutant: a discarded message goes back to the loop past the fetch_sub. *)
DiscardUncounted(f) ==
    /\ wpc' = "recv"
    /\ fate' = [fate EXCEPT ![f] = @ \cup {current}]
    /\ UNCHANGED posted

Discard(f) ==
    /\ wpc' = "sub"
    /\ fate' = [fate EXCEPT ![f] = @ \cup {current}]
    /\ UNCHANGED posted

(* One http request; its caller looks at errors, not at the status. *)
Execute ==
    /\ posted' = Append(posted, current)
    /\ UNCHANGED fate

(* Encoding, building or decorating the request fails before it is sent. *)
NotSent == UNCHANGED <<posted, fate>>

(* Mutant: one retry too many. *)
CanRetryOnceMore == attempts <= MaxRetries

CanRetry == attempts < MaxRetries

(* One attempt of push_process or push_stream: it ends, well or for want   *)
(* of retries (which is only logged), or it fails and is retried.          *)
PushMetadata ==
    /\ wpc = "handle"
    /\ spc[SinkThread] = "idle"
    /\ current.kind \in {"Startup", "InitStream"}
    /\ opt_process_info' = (opt_process_info \/ current.kind = "Startup")
    /\ Execute \/ NotSent
    /\ \/ wpc' = "sub" /\ (CanRetry => Execute) /\ UNCHANGED attempts
       \/ CanRetry /\ attempts' = attempts + 1 /\ UNCHANGED wpc
    /\ UNCHANGED <<channel, calls, streams, current, shutdown, accepted,
                   handled, drift>>

(* Mutant: off by one. *)
OverMaxQueueSizeByOne == queue_size >= max_queue_size - 1

OverMaxQueueSize == queue_size >= max_queue_size

(* push_block: the request, if it can be built, is executed once; failing  *)
(* is only logged.                                                         *)
PushBlock ==
    /\ wpc = "handle"
    /\ spc[SinkThread] = "idle"
    /\ current.kind = "Block"
    /\ \/ ~opt_process_info /\ Discard("rejected")
       \/ opt_process_info /\ OverMaxQueueSize /\ Discard("dropped")
       \/ /\ opt_process_info /\ ~OverMaxQueueSize
          /\ wpc' = "sub"
          /\ Execute \/ NotSent
    /\ UNCHANGED <<channel, calls, streams, current, attempts,
                   opt_process_info, shutdown, accepted, handled, drift>>

(* A debug! or error! of the sink thread itself that fills the log block. *)
LogFromSinkThread ==
    /\ wpc = "handle"
    /\ dispatch = "http"
    /\ CallFlush(SinkThread, Log)
    /\ UNCHANGED <<channel, worker, shutdown, history>>

(* The fetch_sub at the end of the loop, which a timeout reaches too. *)
FetchSub ==
    /\ wpc = "sub"
    /\ spc[SinkThread] = "idle"
    /\ queue_size' = queue_size - 1
    /\ handled' = IF current = None THEN handled ELSE handled + 1
    /\ drift' = IF current = None THEN drift + 1 ELSE drift
    /\ current' = None
    /\ wpc' = "recv"
    /\ UNCHANGED <<sender, sender_lock, receiver, queue, calls, streams, attempts,
                   opt_process_info, shutdown, accepted, posted, fate>>

-----------------------------------------------------------------------------
(***************************************************************************)
(* FlushMonitor::tick, on the sink thread after a timeout.                 *)
(***************************************************************************)

is_busy == queue_size > 0

(* get_sink() clones the Arc, unless tick returns at once: not yet time by *)
(* the wall clock, no dispatch, or the null sink left by a shutdown, which *)
(* is never busy and discards what is flushed into it.                     *)
TickGetSink ==
    /\ wpc = "tick"
    /\ \/ wpc' = "sub" /\ UNCHANGED refs
       \/ dispatch = "http" /\ wpc' = "busy" /\ refs' = refs \cup {"tick"}
    /\ UNCHANGED <<channel, calls, streams, current, attempts,
                   opt_process_info, dpc, history>>

(* Mutant: the tick waits for the sink to be idle, on the sink's thread. *)
AfterIsBusyWait == IF is_busy THEN "tick" ELSE "flushLog"

AfterIsBusy == IF is_busy THEN "sub" ELSE "flushLog"

(* is_busy() is read and the clone released: the last reference runs Drop. *)
TickIsBusy ==
    /\ wpc = "busy"
    /\ refs' = refs \ {"tick"}
    /\ wpc' = IF refs' = {} THEN "drop" ELSE AfterIsBusy
    /\ UNCHANGED <<channel, calls, streams, current, attempts,
                   opt_process_info, dpc, history>>

(* flush_log_buffer then flush_metrics_buffer, each possibly on an empty   *)
(* stream; raising the thread streams' full flag touches nothing here.     *)
TickFlush ==
    /\ wpc \in {"flushLog", "flushMetrics"}
    /\ spc[SinkThread] = "idle"
    /\ wpc' = IF wpc = "flushLog" THEN "flushMetrics" ELSE "sub"
    /\ FlushBuffer(SinkThread, IF wpc = "flushLog" THEN Log ELSE Metrics)
    /\ UNCHANGED <<channel, current, attempts, opt_process_info, shutdown, history>>

(* Drop on the sink thread: close the sender and join the thread itself,   *)
(* which the platform refuses (a panic) or waits for.                      *)
SelfJoin ==
    /\ wpc = "drop"
    /\ sender_lock = None
    /\ sender' = FALSE
    /\ \/ /\ wpc' = "panicked"
          /\ DropReceiver
          /\ UNCHANGED sender_lock
       \/ /\ wpc' = "stuck"
          /\ sender_lock' = SinkThread
          /\ UNCHANGED <<receiver, queue>>
    /\ UNCHANGED <<queue_size, calls, streams, current, attempts,
                   opt_process_info, shutdown, history>>

-----------------------------------------------------------------------------
(***************************************************************************)
(* shutdown_telemetry on Main: flush both streams, then shutdown_dispatch  *)
(* replaces the sink, dropping the old one first and storing the null sink *)
(* only when that is over.                                                 *)
(***************************************************************************)

ShutdownTelemetry ==
    /\ dispatch = "http"
    /\ dpc = "run"
    /\ spc[Main] = "idle"
    /\ dpc' = "flushLog"
    /\ UNCHANGED <<channel, calls, streams, worker, refs, history>>

ShutdownFlush ==
    /\ dpc \in {"flushLog", "flushMetrics"}
    /\ spc[Main] = "idle"
    /\ dpc' = IF dpc = "flushLog" THEN "flushMetrics" ELSE "release"
    /\ FlushBuffer(Main, IF dpc = "flushLog" THEN Log ELSE Metrics)
    /\ UNCHANGED <<channel, worker, refs, history>>

(* Drop runs on Main when the dispatch held the last reference. *)
ReleaseSink ==
    /\ dpc = "release"
    /\ \A t \in Threads : spc[t] = "idle"
    /\ refs' = refs \ {"dispatch"}
    /\ dpc' = IF refs' = {} THEN "lock" ELSE "store"
    /\ UNCHANGED <<channel, calls, streams, worker, history>>

(* Mutant: the sender is not taken out of its Option. *)
KeepSender == UNCHANGED sender

CloseSender == sender' = FALSE

(* Drop for HttpEventSink: the mutex stays held until the thread is joined. *)
(* A panic of the sink thread in its own Drop has poisoned the mutex, and   *)
(* the unwrap() of lock() then panics here too.                             *)
DropLock ==
    /\ dpc = "lock"
    /\ sender_lock = None
    /\ wpc # "panicked"
    /\ sender_lock' = Main
    /\ CloseSender
    /\ dpc' = "join"
    /\ UNCHANGED <<receiver, queue, queue_size, calls, streams, worker, refs, history>>

DropJoin ==
    /\ dpc = "join"
    /\ wpc = "exited"
    /\ sender_lock' = None
    /\ dpc' = "store"
    /\ UNCHANGED <<sender, receiver, queue, queue_size, calls, streams, worker,
                   refs, history>>

StoreNullSink ==
    /\ dpc = "store"
    /\ dpc' = "done"
    /\ dispatch' = "null"
    /\ UNCHANGED <<channel, calls, booted, next, worker, refs, history>>

-----------------------------------------------------------------------------

AppStep ==
    \/ DispatchNew
    \/ InitEventDispatch
    \/ \E t \in Threads : InitThreadStream(t)
    \/ \E t \in Threads, s \in Streams : FlushStream(t, s)
    \/ ShutdownTelemetry

ShutdownStep ==
    \/ ShutdownFlush
    \/ ReleaseSink
    \/ DropLock
    \/ DropJoin
    \/ StoreNullSink

SinkStep ==
    \/ ThreadStart
    \/ Recv
    \/ RecvDisconnected
    \/ PushMetadata
    \/ PushBlock
    \/ FetchSub
    \/ TickGetSink
    \/ TickIsBusy
    \/ TickFlush
    \/ SelfJoin

Next ==
    \/ AppStep
    \/ ShutdownStep
    \/ \E c \in Callers : Send(c)
    \/ SinkStep
    \/ RecvTimeout
    \/ LogFromSinkThread

(***************************************************************************)
(* The scheduler runs every thread that is not blocked, and an http        *)
(* request ends, with an answer or an error.  Nothing forces the           *)
(* application to call the sink or to shut it down.                        *)
(***************************************************************************)
Fairness ==
    /\ \A c \in Callers : WF_vars(Send(c))
    /\ WF_vars(SinkStep)
    /\ WF_vars(ShutdownStep)

Spec == Init /\ [][Next]_vars

FairSpec == Spec /\ Fairness

-----------------------------------------------------------------------------
(***************************************************************************)
(* Properties                                                              *)
(***************************************************************************)

(* Messages that really wait for the sink thread: queued, being handled,   *)
(* or counted by a send() that has not pushed yet.                         *)
InHand  == IF current = None THEN 0 ELSE 1
InSend  == IF \E c \in Callers : spc[c] = "push" THEN 1 ELSE 0
Backlog == Len(queue) + InHand + InSend

(* The message in hand, then the queue. *)
Waiting == (IF current = None THEN <<>> ELSE <<current>>) \o queue

(* Every message the sink can be given; each is sent once. *)
Messages ==
    {Startup} \cup {InitStream(s) : s \in Streams}
      \cup UNION {{Block(s, n) : n \in 1 .. MaxBlocks[s]} : s \in Streams}

(***************************************************************************)
(* queue_size never counts a message twice and never forgets one, whatever *)
(* the interleaving of send() with the receive loop: it is the backlog     *)
(* less one for every receive timeout (the loop decrements after those     *)
(* too).                                                                   *)
(***************************************************************************)
QueueSizeAccounting == receiver => queue_size = Backlog - drift

(***************************************************************************)
(* push_block drops a block only when max_queue_size messages are really   *)
(* waiting: the counter's drift may delay dropping but never causes it.    *)
(***************************************************************************)
DropsOnlyWhenBacklogged ==
    [][fate'["dropped"] # fate["dropped"] => Backlog >= max_queue_size]_vars

(***************************************************************************)
(* Whichever threads raced to send them, nothing is posted before the      *)
(* process, nor a block before its stream, that should have come after it  *)
(* (a request that cannot be sent is missing, never late); and "trying to  *)
(* send blocks before Startup message" is never reported.                  *)
(***************************************************************************)
MetadataFirst ==
    /\ fate["rejected"] = {}
    /\ \A j \in DOMAIN posted : \A i \in 1 .. j - 1 :
          /\ posted[j] = Startup => posted[i] = Startup
          /\ posted[j].kind = "InitStream" =>
                ~(posted[i].kind = "Block" /\ posted[i].stream = posted[j].stream)

(***************************************************************************)
(* The blocks of a stream are posted in the order they were cut, and each  *)
(* at most once: insert_block would record a second copy as new data.      *)
(***************************************************************************)
StreamOrder ==
    \A i, j \in DOMAIN posted :
        /\ i < j
        /\ posted[i].kind = "Block" /\ posted[j].kind = "Block"
        /\ posted[i].stream = posted[j].stream
        => posted[i].seq < posted[j].seq

(***************************************************************************)
(* When Drop on the application's thread returns from join, everything the *)
(* sink accepted, the last flushes of shutdown_telemetry included, has     *)
(* been handled (unless the sink thread never got to its loop).            *)
(***************************************************************************)
JoinDrains ==
    [][dpc = "join" /\ dpc' = "store" /\ opt_process_info
         => handled = Len(accepted)]_vars

(* The sink thread waits for the mutex that Drop holds while joining it.   *)
SinkThreadBlocked ==
    sender_lock = Main /\ (spc[SinkThread] = "lock" \/ wpc = "drop")

(***************************************************************************)
(* A Drop begun on the application's thread returns; the one thing that    *)
(* can stop it is the sink thread, caught inside a tick or a log call:     *)
(* there it asks for the sender mutex that Drop holds, or has itself begun *)
(* to drop the sink.                                                       *)
(***************************************************************************)
DropReturns ==
    (dpc = "lock")
      ~> (dpc = "done" \/ SinkThreadBlocked \/ wpc \in {"stuck", "panicked"})

(***************************************************************************)
(* Every accepted message is handled in the end, unless the sink thread    *)
(* is gone or blocked by a Drop.                                           *)
(***************************************************************************)
AcceptedIsHandled ==
    \A m \in Messages :
        (\E i \in DOMAIN accepted : accepted[i] = m)
          ~> (\/ \E i \in 1 .. handled : accepted[i] = m
              \/ ~receiver \/ SinkThreadBlocked \/ wpc = "stuck")

Contract == INSTANCE SinkContract WITH
    Message <- Messages,
    Retried <- {m \in Messages : m.kind # "Block"},
    open    <- receiver,
    pending <- IF wpc = "handle" THEN Waiting ELSE queue,
    tries   <- IF wpc = "handle" THEN attempts ELSE 0,
    request <- IF posted = <<>> THEN None ELSE posted[Len(posted)]

(***************************************************************************)
(* Seen from the dispatch, the mutex, the channel, the counter, the retry  *)
(* strategy, the timeouts and the reentrant flushes of the sink thread     *)
(* amount to one queue served in order: each accepted message is tried     *)
(* before the next one, a block once and the metadata at most MaxRetries   *)
(* times more, and is lost without a try only when the sink thread ends    *)
(* between two messages.                                                   *)
(***************************************************************************)
ImplementsContract == Contract!Spec

(***************************************************************************)
(* event/sink.rs: "sink is busy writing to disk or network, avoid extra    *)
(* flushing".  Whenever the sink thread holds a message, is_busy says so.  *)
(***************************************************************************)
BusyWhileWriting == wpc = "handle" => is_busy

(***************************************************************************)
(* http_event_sink.rs: handle.join().expect("Error joining telemetry       *)
(* thread"): joining the sink thread works.                                *)
(***************************************************************************)
JoinSucceeds == wpc \notin {"panicked", "stuck"}
=============================================================================
