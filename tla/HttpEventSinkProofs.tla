------------------------- MODULE HttpEventSinkProofs -------------------------
(***************************************************************************)
(* Proofs about HttpEventSink, for any set of threads and any bounds.      *)
(* First types, the counter and dropped blocks; then the order of what the *)
(* sink sends, that Drop waits for what was accepted, and that the sink    *)
(* implements SinkContract.                                                *)
(***************************************************************************)
EXTENDS HttpEventSink, TLAPS

(* A thread inside send() has a message; past the lock it owns the mutex.  *)
SendInv ==
    \A c \in Callers :
        /\ spc[c] # "idle" => smsg[c] \in SinkEvent
        /\ spc[c] \in {"push", "error", "stuck"} => sender_lock = c

(* The sink thread holds a message exactly while it handles one, owns the  *)
(* receiver until it ends, and begins a timeout only below the bound.      *)
SinkThreadInv ==
    /\ wpc = "handle" => current \in SinkEvent
    /\ wpc \in {"start", "recv", "tick", "busy", "flushLog", "flushMetrics", "drop"}
         => current = None
    /\ wpc \notin {"exited", "panicked"} => receiver
    /\ wpc \in {"tick", "busy", "flushLog", "flushMetrics"} => drift < MaxTimeouts
    /\ wpc = "sub" /\ current = None => drift < MaxTimeouts

(* Shutting down comes after the boot sequence; while Main drops the sink  *)
(* no application thread is inside it, and during the join Main owns the   *)
(* mutex.                                                                  *)
ShutdownInv ==
    /\ dispatch # "none" => booted = 3
    /\ dpc # "run" => dispatch # "none"
    /\ dpc \in {"lock", "join"} => \A t \in Threads : spc[t] = "idle"
    /\ dpc = "join" => sender_lock = Main

IndInv == TypeOK /\ SendInv /\ SinkThreadInv /\ ShutdownInv /\ QueueSizeAccounting

(* The messages the dispatch builds are sink events. *)
LEMMA MessageTypes ==
    /\ Startup \in SinkEvent
    /\ \A s \in Streams : InitStream(s) \in SinkEvent
    /\ \A s \in Streams, n \in Nat : Block(s, n) \in SinkEvent
  BY DEF Startup, InitStream, Block, SinkEvent

LEMMA BootTypes == \A i \in 1 .. 3 : BootMessage[i] \in SinkEvent
  BY ConstantsAssumption, MessageTypes DEF BootMessage, Streams

(* The mutex is free, or held by exactly one caller. *)
LEMMA NoneNotCaller == None \notin Callers /\ Main \in Callers /\ SinkThread \in Callers
  BY ConstantsAssumption DEF Callers

(* A group of variables that does not move keeps its type. *)
LEMMA UnchangedTypes ==
    /\ ChannelOK /\ UNCHANGED channel => ChannelOK'
    /\ CallsOK /\ UNCHANGED calls => CallsOK'
    /\ StreamsOK /\ UNCHANGED streams => StreamsOK'
    /\ WorkerOK /\ UNCHANGED worker => WorkerOK'
    /\ ShutdownOK /\ UNCHANGED shutdown => ShutdownOK'
    /\ HistoryOK /\ UNCHANGED history => HistoryOK'
  <1>1. ChannelOK /\ UNCHANGED channel => ChannelOK'
    BY DEF ChannelOK, channel
  <1>2. CallsOK /\ UNCHANGED calls => CallsOK'
    BY DEF CallsOK, calls
  <1>3. StreamsOK /\ UNCHANGED streams => StreamsOK'
    BY DEF StreamsOK, streams
  <1>4. WorkerOK /\ UNCHANGED worker => WorkerOK'
    BY DEF WorkerOK, worker
  <1>5. ShutdownOK /\ UNCHANGED shutdown => ShutdownOK'
    BY DEF ShutdownOK, shutdown
  <1>6. HistoryOK /\ UNCHANGED history => HistoryOK'
    BY DEF HistoryOK, history
  <1> QED BY <1>1, <1>2, <1>3, <1>4, <1>5, <1>6

(* Before the first step nothing is queued, counted or held. *)
LEMMA InitIndInv == Init => IndInv
  <1> SUFFICES ASSUME Init PROVE IndInv
    OBVIOUS
  <1> USE ConstantsAssumption DEF Init
  <1>1. ChannelOK /\ CallsOK /\ StreamsOK /\ ShutdownOK
    BY DEF ChannelOK, CallsOK, StreamsOK, ShutdownOK
  <1>2. WorkerOK
    <2>1. attempts \in 0 .. MaxRetries /\ current \in SinkEvent \cup {None}
      OBVIOUS
    <2> QED BY <2>1 DEF WorkerOK
  <1>3. HistoryOK
    BY DEF HistoryOK
  <1>4. SendInv /\ SinkThreadInv /\ ShutdownInv
    BY DEF SendInv, SinkThreadInv, ShutdownInv
  <1>5. QueueSizeAccounting
    BY DEF QueueSizeAccounting, Backlog, InHand, InSend
  <1> QED BY <1>1, <1>2, <1>3, <1>4, <1>5 DEF IndInv, TypeOK

(* Every step of the sink, of its callers and of the shutdown keeps it. *)
LEMMA NextIndInv == ASSUME IndInv, [Next]_vars PROVE IndInv'
  <1> USE ConstantsAssumption DEF channel, calls, streams, worker, shutdown, history
  <1>0. TypeOK /\ ChannelOK /\ CallsOK /\ StreamsOK /\ WorkerOK /\ ShutdownOK
        /\ HistoryOK /\ SendInv /\ SinkThreadInv /\ ShutdownInv /\ QueueSizeAccounting
    BY DEF IndInv, TypeOK
  <1>1. ASSUME NEW c \in Callers, SendLock(c) PROVE IndInv'
    <2>1. StreamsOK' /\ WorkerOK' /\ ShutdownOK' /\ HistoryOK'
      BY <1>0, <1>1, UnchangedTypes DEF SendLock, Return
    <2>2. ChannelOK'
      BY <1>0, <1>1 DEF ChannelOK, SendLock, Return
    <2>3. CallsOK'
      BY <1>0, <1>1 DEF CallsOK, SendLock, Return
    <2>4. SendInv'
      BY <1>0, <1>1, NoneNotCaller DEF SendInv, CallsOK, SendLock, Return
    <2>5. SinkThreadInv'
      BY <1>0, <1>1 DEF SinkThreadInv, SendLock
    <2>6. ShutdownInv'
      BY <1>0, <1>1, NoneNotCaller
      DEF ShutdownInv, SendInv, CallsOK, Callers, SendLock, Return
    <2>7. QueueSizeAccounting'
      <3>1. \A d \in Callers : spc[d] # "push"
        BY <1>0, <1>1, NoneNotCaller DEF SendLock, SendInv
      <3>2. CASE sender
        <4>1. queue_size' = queue_size + 1 /\ spc'[c] = "push"
          BY <1>0, <1>1, <3>2 DEF SendLock, Return, CallsOK
        <4>2. (\E d \in Callers : spc'[d] = "push") /\ ~(\E d \in Callers : spc[d] = "push")
          BY <3>1, <4>1
        <4>3. queue' = queue /\ current' = current /\ drift' = drift /\ receiver' = receiver
          BY <1>1 DEF SendLock
        <4>4. InSend = 0 /\ InSend' = 1 /\ InHand' = InHand /\ InHand \in Int
          BY <4>2, <4>3 DEF InSend, InHand
        <4> QED
          BY <1>0, <4>1, <4>3, <4>4
          DEF QueueSizeAccounting, Backlog, ChannelOK, HistoryOK
      <3>3. CASE ~sender
        <4>1. \A d \in Callers : spc'[d] # "push"
          BY <1>0, <1>1, <3>1, <3>3 DEF SendLock, Return, CallsOK
        <4> QED
          BY <1>0, <1>1, <3>1, <3>3, <4>1
          DEF SendLock, QueueSizeAccounting, Backlog, InHand, InSend
      <3> QED BY <3>2, <3>3
    <2> QED BY <2>1, <2>2, <2>3, <2>4, <2>5, <2>6, <2>7 DEF IndInv, TypeOK
  <1>2. ASSUME NEW c \in Callers, SendPush(c) PROVE IndInv'
    <2>1. StreamsOK' /\ WorkerOK' /\ ShutdownOK'
      BY <1>0, <1>2, UnchangedTypes DEF SendPush, Return
    <2>2. ChannelOK'
      <3>1. Append(queue, smsg[c]) \in Seq(SinkEvent)
        BY <1>0, <1>2 DEF SendPush, SendInv, ChannelOK
      <3>2. queue' \in Seq(SinkEvent) /\ sender_lock' \in Callers \cup {None}
        BY <1>0, <1>2, <3>1 DEF SendPush, Enqueue, ChannelOK
      <3>3. queue_size' \in Int
        BY <1>0, <1>2 DEF SendPush, ChannelOK
      <3> QED BY <1>0, <1>2, <3>2, <3>3 DEF SendPush, ChannelOK
    <2>3. CallsOK'
      BY <1>0, <1>2 DEF CallsOK, SendPush, Return
    <2>4. HistoryOK'
      <3>1. Append(accepted, smsg[c]) \in Seq(SinkEvent)
        BY <1>0, <1>2 DEF SendPush, SendInv, HistoryOK
      <3> QED BY <1>0, <1>2, <3>1 DEF SendPush, HistoryOK
    <2>5. SendInv'
      BY <1>0, <1>2 DEF SendInv, CallsOK, SendPush, Return
    <2>6. SinkThreadInv'
      BY <1>0, <1>2 DEF SinkThreadInv, SendPush
    <2>7. ShutdownInv'
      BY <1>0, <1>2, NoneNotCaller
      DEF ShutdownInv, SendInv, CallsOK, Callers, SendPush, Return
    <2>8. QueueSizeAccounting'
      <3>1. \A d \in Callers : spc'[d] # "push"
        BY <1>0, <1>2 DEF SendPush, Return, SendInv, CallsOK
      <3>2. CASE receiver
        <4>1. Len(queue') = Len(queue) + 1
          BY <1>0, <1>2, <3>2 DEF SendPush, Enqueue, ChannelOK
        <4>2. (\E d \in Callers : spc[d] = "push") /\ ~(\E d \in Callers : spc'[d] = "push")
          BY <1>2, <3>1 DEF SendPush
        <4>3. queue_size' = queue_size /\ current' = current /\ drift' = drift
          BY <1>2, <3>2 DEF SendPush
        <4>4. InSend = 1 /\ InSend' = 0 /\ InHand' = InHand /\ InHand \in Int
          BY <4>2, <4>3 DEF InSend, InHand
        <4> QED
          BY <1>0, <1>2, <3>2, <4>1, <4>3, <4>4
          DEF SendPush, QueueSizeAccounting, Backlog, ChannelOK, HistoryOK
      <3>3. CASE ~receiver
        BY <1>2, <3>3 DEF SendPush, QueueSizeAccounting
      <3> QED BY <3>2, <3>3
    <2> QED BY <2>1, <2>2, <2>3, <2>4, <2>5, <2>6, <2>7, <2>8 DEF IndInv, TypeOK
  <1>3. ASSUME NEW c \in Callers, SendError(c) PROVE IndInv'
    <2>1. StreamsOK' /\ WorkerOK' /\ ShutdownOK' /\ HistoryOK'
      BY <1>0, <1>3, UnchangedTypes DEF SendError, Return
    <2>2. ChannelOK'
      BY <1>0, <1>3 DEF ChannelOK, SendError, Return
    <2>3. CallsOK'
      BY <1>0, <1>3 DEF CallsOK, SendError, Return
    <2>4. SendInv'
      BY <1>0, <1>3 DEF SendInv, CallsOK, SendError, Return
    <2>5. SinkThreadInv'
      BY <1>0, <1>3 DEF SinkThreadInv, SendError
    <2>6. ShutdownInv'
      BY <1>0, <1>3, NoneNotCaller
      DEF ShutdownInv, SendInv, CallsOK, Callers, SendError, Return
    <2>7. QueueSizeAccounting'
      BY <1>0, <1>3
      DEF QueueSizeAccounting, Backlog, InHand, InSend, SendInv, CallsOK, SendError,
          Return
    <2> QED BY <2>1, <2>2, <2>3, <2>4, <2>5, <2>6, <2>7 DEF IndInv, TypeOK
  <1>4. ASSUME DispatchNew PROVE IndInv'
    <2>1. ChannelOK' /\ WorkerOK' /\ ShutdownOK' /\ HistoryOK'
      BY <1>0, <1>4, UnchangedTypes DEF DispatchNew, CallSend, BootMessage
    <2>2. CallsOK'
      <3>1. BootMessage[booted + 1] \in SinkEvent
        BY <1>0, <1>4, BootTypes DEF DispatchNew, StreamsOK
      <3> QED
        BY <1>0, <1>4, <3>1, NoneNotCaller DEF DispatchNew, CallSend, CallsOK, SendInv
    <2>3. StreamsOK'
      BY <1>0, <1>4 DEF StreamsOK, Streams, DispatchNew, CallSend, BootMessage
    <2>4. SendInv'
      <3>1. BootMessage[booted + 1] \in SinkEvent
        BY <1>0, <1>4, BootTypes DEF DispatchNew, StreamsOK
      <3> QED
        BY <1>0, <1>4, <3>1, NoneNotCaller DEF DispatchNew, CallSend, CallsOK, SendInv
    <2>5. SinkThreadInv'
      BY <1>0, <1>4 DEF SinkThreadInv, DispatchNew
    <2>6. ShutdownInv'
      BY <1>0, <1>4, NoneNotCaller
      DEF ShutdownInv, CallsOK, Callers, DispatchNew, CallSend, BootMessage
    <2>7. QueueSizeAccounting'
      BY <1>0, <1>4
      DEF QueueSizeAccounting, Backlog, InHand, InSend, CallsOK, Callers, DispatchNew,
          CallSend, BootMessage
    <2> QED BY <2>1, <2>2, <2>3, <2>4, <2>5, <2>6, <2>7 DEF IndInv, TypeOK
  <1>5. ASSUME InitEventDispatch PROVE IndInv'
    <2>1. ChannelOK' /\ CallsOK' /\ WorkerOK' /\ ShutdownOK' /\ HistoryOK'
      BY <1>0, <1>5, UnchangedTypes DEF InitEventDispatch
    <2>2. StreamsOK'
      BY <1>0, <1>5 DEF StreamsOK, InitEventDispatch
    <2>3. SendInv'
      BY <1>0, <1>5 DEF SendInv, InitEventDispatch
    <2>4. SinkThreadInv'
      BY <1>0, <1>5 DEF SinkThreadInv, InitEventDispatch
    <2>5. ShutdownInv'
      BY <1>0, <1>5, NoneNotCaller DEF ShutdownInv, InitEventDispatch, Announced
    <2>6. QueueSizeAccounting'
      BY <1>0, <1>5 DEF QueueSizeAccounting, Backlog, InHand, InSend, InitEventDispatch
    <2> QED BY <2>1, <2>2, <2>3, <2>4, <2>5, <2>6 DEF IndInv, TypeOK
  <1>6. ASSUME NEW t \in Threads, InitThreadStream(t) PROVE IndInv'
    <2>1. ChannelOK' /\ WorkerOK' /\ ShutdownOK' /\ HistoryOK'
      BY <1>0, <1>6, UnchangedTypes DEF InitThreadStream, CallSend
    <2>2. CallsOK'
      BY <1>0, <1>6, NoneNotCaller, MessageTypes
      DEF CallsOK, Callers, Streams, InitThreadStream, CallSend
    <2>3. StreamsOK'
      BY <1>0, <1>6 DEF StreamsOK, InitThreadStream, CallSend
    <2>4. SendInv'
      BY <1>0, <1>6, MessageTypes
      DEF SendInv, CallsOK, StreamsOK, Callers, Streams, InitThreadStream, CallSend
    <2>5. SinkThreadInv'
      BY <1>0, <1>6 DEF SinkThreadInv, InitThreadStream
    <2>6. ShutdownInv'
      BY <1>0, <1>6, NoneNotCaller
      DEF ShutdownInv, CallsOK, AppRunning, Callers, InitThreadStream, CallSend
    <2>7. QueueSizeAccounting'
      BY <1>0, <1>6
      DEF QueueSizeAccounting, Backlog, InHand, InSend, CallsOK, Callers,
          InitThreadStream, CallSend
    <2> QED BY <2>1, <2>2, <2>3, <2>4, <2>5, <2>6, <2>7 DEF IndInv, TypeOK
  <1>7. ASSUME NEW t \in Threads, NEW s \in Streams, FlushStream(t, s) PROVE IndInv'
    <2>1. ChannelOK' /\ WorkerOK' /\ ShutdownOK' /\ HistoryOK'
      BY <1>0, <1>7, UnchangedTypes DEF FlushStream, CallFlush, CallSend
    <2>2. CallsOK'
      BY <1>0, <1>7, NoneNotCaller, MessageTypes
      DEF CallsOK, StreamsOK, Callers, Streams, FlushStream, CallFlush, CallSend
    <2>3. StreamsOK'
      BY <1>0, <1>7 DEF StreamsOK, FlushStream, CallFlush, CallSend
    <2>4. SendInv'
      BY <1>0, <1>7, MessageTypes
      DEF SendInv, CallsOK, StreamsOK, Callers, Streams, FlushStream, CallFlush,
          CallSend
    <2>5. SinkThreadInv'
      BY <1>0, <1>7 DEF SinkThreadInv, FlushStream
    <2>6. ShutdownInv'
      BY <1>0, <1>7, NoneNotCaller
      DEF ShutdownInv, CallsOK, AppRunning, Callers, FlushStream, CallFlush, CallSend
    <2>7. QueueSizeAccounting'
      BY <1>0, <1>7
      DEF QueueSizeAccounting, Backlog, InHand, InSend, CallsOK, Callers, FlushStream,
          CallFlush, CallSend
    <2> QED BY <2>1, <2>2, <2>3, <2>4, <2>5, <2>6, <2>7 DEF IndInv, TypeOK
  <1>8. ASSUME ShutdownTelemetry PROVE IndInv'
    <2>1. ChannelOK' /\ CallsOK' /\ StreamsOK' /\ WorkerOK' /\ HistoryOK'
      BY <1>0, <1>8, UnchangedTypes DEF ShutdownTelemetry
    <2>2. ShutdownOK'
      BY <1>0, <1>8 DEF ShutdownOK, ShutdownTelemetry
    <2>3. SendInv'
      BY <1>0, <1>8 DEF SendInv, ShutdownTelemetry
    <2>4. SinkThreadInv'
      BY <1>0, <1>8 DEF SinkThreadInv, ShutdownTelemetry
    <2>5. ShutdownInv'
      BY <1>0, <1>8, NoneNotCaller DEF ShutdownInv, ShutdownTelemetry
    <2>6. QueueSizeAccounting'
      BY <1>0, <1>8 DEF QueueSizeAccounting, Backlog, InHand, InSend, ShutdownTelemetry
    <2> QED BY <2>1, <2>2, <2>3, <2>4, <2>5, <2>6 DEF IndInv, TypeOK
  <1>9. ASSUME ShutdownFlush PROVE IndInv'
    <2>1. ChannelOK' /\ WorkerOK' /\ HistoryOK'
      BY <1>0, <1>9, UnchangedTypes DEF ShutdownFlush, FlushBuffer, CallFlush, CallSend
    <2>2. CallsOK'
      BY <1>0, <1>9, NoneNotCaller, MessageTypes
      DEF CallsOK, StreamsOK, Callers, Streams, ShutdownFlush, FlushBuffer, CallFlush,
          CallSend
    <2>3. StreamsOK'
      BY <1>0, <1>9 DEF StreamsOK, ShutdownFlush, FlushBuffer, CallFlush, CallSend
    <2>4. ShutdownOK'
      BY <1>0, <1>9 DEF ShutdownOK, ShutdownFlush, FlushBuffer, CallFlush, CallSend
    <2>5. SendInv'
      BY <1>0, <1>9, MessageTypes
      DEF SendInv, CallsOK, StreamsOK, Callers, Streams, ShutdownFlush, FlushBuffer,
          CallFlush, CallSend
    <2>6. SinkThreadInv'
      BY <1>0, <1>9 DEF SinkThreadInv, ShutdownFlush
    <2>7. ShutdownInv'
      BY <1>0, <1>9, NoneNotCaller
      DEF ShutdownInv, CallsOK, Callers, ShutdownFlush, FlushBuffer, CallFlush, CallSend
    <2>8. QueueSizeAccounting'
      BY <1>0, <1>9
      DEF QueueSizeAccounting, Backlog, InHand, InSend, CallsOK, Callers, ShutdownFlush,
          FlushBuffer, CallFlush, CallSend
    <2> QED BY <2>1, <2>2, <2>3, <2>4, <2>5, <2>6, <2>7, <2>8 DEF IndInv, TypeOK
  <1>10. ASSUME ReleaseSink PROVE IndInv'
    <2>1. ChannelOK' /\ CallsOK' /\ StreamsOK' /\ WorkerOK' /\ HistoryOK'
      BY <1>0, <1>10, UnchangedTypes DEF ReleaseSink
    <2>2. ShutdownOK'
      BY <1>0, <1>10 DEF ShutdownOK, ReleaseSink
    <2>3. SendInv'
      BY <1>0, <1>10 DEF SendInv, ReleaseSink
    <2>4. SinkThreadInv'
      BY <1>0, <1>10 DEF SinkThreadInv, ReleaseSink
    <2>5. ShutdownInv'
      BY <1>0, <1>10, NoneNotCaller DEF ShutdownInv, ReleaseSink
    <2>6. QueueSizeAccounting'
      BY <1>0, <1>10 DEF QueueSizeAccounting, Backlog, InHand, InSend, ReleaseSink
    <2> QED BY <2>1, <2>2, <2>3, <2>4, <2>5, <2>6 DEF IndInv, TypeOK
  <1>11. ASSUME DropLock PROVE IndInv'
    <2>1. CallsOK' /\ StreamsOK' /\ WorkerOK' /\ HistoryOK'
      BY <1>0, <1>11, UnchangedTypes DEF DropLock
    <2>2. ChannelOK'
      BY <1>0, <1>11, NoneNotCaller DEF ChannelOK, DropLock, CloseSender
    <2>3. ShutdownOK'
      BY <1>0, <1>11 DEF ShutdownOK, DropLock
    <2>4. SendInv'
      <3>1. \A d \in Callers : spc[d] \notin {"push", "error", "stuck"}
        BY <1>0, <1>11, NoneNotCaller DEF DropLock, SendInv
      <3> QED BY <1>0, <1>11, <3>1 DEF DropLock, SendInv
    <2>5. SinkThreadInv'
      BY <1>0, <1>11 DEF SinkThreadInv, DropLock
    <2>6. ShutdownInv'
      BY <1>0, <1>11, NoneNotCaller DEF ShutdownInv, DropLock
    <2>7. QueueSizeAccounting'
      BY <1>0, <1>11 DEF QueueSizeAccounting, Backlog, InHand, InSend, DropLock
    <2> QED BY <2>1, <2>2, <2>3, <2>4, <2>5, <2>6, <2>7 DEF IndInv, TypeOK
  <1>12. ASSUME DropJoin PROVE IndInv'
    <2>1. CallsOK' /\ StreamsOK' /\ WorkerOK' /\ HistoryOK'
      BY <1>0, <1>12, UnchangedTypes DEF DropJoin
    <2>2. ChannelOK'
      BY <1>0, <1>12, NoneNotCaller DEF ChannelOK, DropJoin
    <2>3. ShutdownOK'
      BY <1>0, <1>12 DEF ShutdownOK, DropJoin
    <2>4. SendInv'
      <3>1. \A d \in Callers : spc[d] \notin {"push", "error", "stuck"}
        BY <1>0, <1>12 DEF DropJoin, SendInv, ShutdownInv, Callers
      <3> QED BY <1>0, <1>12, <3>1 DEF DropJoin, SendInv
    <2>5. SinkThreadInv'
      BY <1>0, <1>12 DEF SinkThreadInv, DropJoin
    <2>6. ShutdownInv'
      BY <1>0, <1>12, NoneNotCaller DEF ShutdownInv, DropJoin
    <2>7. QueueSizeAccounting'
      BY <1>0, <1>12 DEF QueueSizeAccounting, Backlog, InHand, InSend, DropJoin
    <2> QED BY <2>1, <2>2, <2>3, <2>4, <2>5, <2>6, <2>7 DEF IndInv, TypeOK
  <1>13. ASSUME StoreNullSink PROVE IndInv'
    <2>1. ChannelOK' /\ CallsOK' /\ WorkerOK' /\ HistoryOK'
      BY <1>0, <1>13, UnchangedTypes DEF StoreNullSink
    <2>2. StreamsOK'
      BY <1>0, <1>13 DEF StreamsOK, StoreNullSink
    <2>3. ShutdownOK'
      BY <1>0, <1>13 DEF ShutdownOK, StoreNullSink
    <2>4. SendInv'
      BY <1>0, <1>13 DEF SendInv, StoreNullSink
    <2>5. SinkThreadInv'
      BY <1>0, <1>13 DEF SinkThreadInv, StoreNullSink
    <2>6. ShutdownInv'
      BY <1>0, <1>13, NoneNotCaller DEF ShutdownInv, StoreNullSink
    <2>7. QueueSizeAccounting'
      BY <1>0, <1>13 DEF QueueSizeAccounting, Backlog, InHand, InSend, StoreNullSink
    <2> QED BY <2>1, <2>2, <2>3, <2>4, <2>5, <2>6, <2>7 DEF IndInv, TypeOK
  <1>14. ASSUME ThreadStart PROVE IndInv'
    <2>1. CallsOK' /\ StreamsOK' /\ ShutdownOK' /\ HistoryOK'
      BY <1>0, <1>14, UnchangedTypes DEF ThreadStart, DropReceiver
    <2>2. ChannelOK'
      <3>1. <<>> \in Seq(SinkEvent)
        OBVIOUS
      <3> QED
        BY <1>0, <1>14, <3>1, NoneNotCaller DEF ThreadStart, DropReceiver, ChannelOK
    <2>3. WorkerOK'
      BY <1>0, <1>14 DEF WorkerOK, ThreadStart, DropReceiver
    <2>4. SendInv'
      BY <1>0, <1>14 DEF SendInv, ThreadStart, DropReceiver
    <2>5. SinkThreadInv'
      BY <1>0, <1>14 DEF SinkThreadInv, ThreadStart, DropReceiver
    <2>6. ShutdownInv'
      BY <1>0, <1>14, NoneNotCaller DEF ShutdownInv, ThreadStart, DropReceiver
    <2>7. QueueSizeAccounting'
      BY <1>0, <1>14
      DEF QueueSizeAccounting, Backlog, InHand, InSend, ThreadStart, DropReceiver,
          DropReceiver
    <2> QED BY <2>1, <2>2, <2>3, <2>4, <2>5, <2>6, <2>7 DEF IndInv, TypeOK
  <1>15. ASSUME Recv PROVE IndInv'
    <2>1. CallsOK' /\ StreamsOK' /\ ShutdownOK' /\ HistoryOK'
      BY <1>0, <1>15, UnchangedTypes DEF Recv
    <2>2. ChannelOK'
      BY <1>0, <1>15 DEF ChannelOK, Recv
    <2>3. WorkerOK'
      <3>1. Head(queue) \in SinkEvent
        BY <1>0, <1>15 DEF Recv, ChannelOK
      <3> QED BY <1>0, <1>15, <3>1 DEF Recv, WorkerOK
    <2>4. SendInv'
      BY <1>0, <1>15 DEF SendInv, Recv
    <2>5. SinkThreadInv'
      BY <1>0, <1>15 DEF SinkThreadInv, ChannelOK, HistoryOK, Recv
    <2>6. ShutdownInv'
      BY <1>0, <1>15, NoneNotCaller DEF ShutdownInv, Recv
    <2>7. QueueSizeAccounting'
      <3>1. Len(queue') = Len(queue) - 1 /\ current' # None /\ current = None
        BY <1>0, <1>15 DEF Recv, ChannelOK, SinkThreadInv
      <3> QED
        BY <1>0, <1>15, <3>1
        DEF Recv, QueueSizeAccounting, Backlog, InHand, InSend, ChannelOK, HistoryOK
    <2> QED BY <2>1, <2>2, <2>3, <2>4, <2>5, <2>6, <2>7 DEF IndInv, TypeOK
  <1>16. ASSUME RecvDisconnected PROVE IndInv'
    <2>1. CallsOK' /\ StreamsOK' /\ ShutdownOK' /\ HistoryOK'
      BY <1>0, <1>16, UnchangedTypes DEF RecvDisconnected, DropReceiver
    <2>2. ChannelOK'
      <3>1. <<>> \in Seq(SinkEvent)
        OBVIOUS
      <3> QED
        BY <1>0, <1>16, <3>1, NoneNotCaller
        DEF RecvDisconnected, DropReceiver, ChannelOK
    <2>3. WorkerOK'
      BY <1>0, <1>16 DEF WorkerOK, RecvDisconnected, DropReceiver
    <2>4. SendInv'
      BY <1>0, <1>16 DEF SendInv, RecvDisconnected, DropReceiver
    <2>5. SinkThreadInv'
      BY <1>0, <1>16 DEF SinkThreadInv, RecvDisconnected, DropReceiver
    <2>6. ShutdownInv'
      BY <1>0, <1>16, NoneNotCaller DEF ShutdownInv, RecvDisconnected, DropReceiver
    <2>7. QueueSizeAccounting'
      BY <1>0, <1>16
      DEF QueueSizeAccounting, Backlog, InHand, InSend, RecvDisconnected, DropReceiver,
          DropReceiver
    <2> QED BY <2>1, <2>2, <2>3, <2>4, <2>5, <2>6, <2>7 DEF IndInv, TypeOK
  <1>17. ASSUME PushMetadata PROVE IndInv'
    <2>1. ChannelOK' /\ CallsOK' /\ StreamsOK' /\ ShutdownOK'
      BY <1>0, <1>17, UnchangedTypes DEF PushMetadata, Execute
    <2>2. WorkerOK'
      BY <1>0, <1>17 DEF WorkerOK, PushMetadata, CanRetry, Execute
    <2>3. HistoryOK'
      <3>1. Append(posted, current) \in Seq(SinkEvent)
        BY <1>0, <1>17 DEF PushMetadata, SinkThreadInv, HistoryOK
      <3>2. posted' \in Seq(SinkEvent) /\ fate' = fate
        BY <1>0, <1>17, <3>1 DEF PushMetadata, Execute, NotSent, HistoryOK
      <3> QED BY <1>0, <1>17, <3>2 DEF PushMetadata, HistoryOK
    <2>4. SendInv'
      BY <1>0, <1>17 DEF SendInv, PushMetadata, Execute
    <2>5. SinkThreadInv'
      BY <1>0, <1>17 DEF SinkThreadInv, PushMetadata, Execute
    <2>6. ShutdownInv'
      BY <1>0, <1>17, NoneNotCaller DEF ShutdownInv, PushMetadata, Execute
    <2>7. QueueSizeAccounting'
      BY <1>0, <1>17
      DEF QueueSizeAccounting, Backlog, InHand, InSend, PushMetadata, Execute
    <2> QED BY <2>1, <2>2, <2>3, <2>4, <2>5, <2>6, <2>7 DEF IndInv, TypeOK
  <1>18. ASSUME PushBlock PROVE IndInv'
    <2>1. ChannelOK' /\ CallsOK' /\ StreamsOK' /\ ShutdownOK'
      BY <1>0, <1>18, UnchangedTypes DEF PushBlock, Execute, Discard
    <2>2. WorkerOK'
      BY <1>0, <1>18 DEF WorkerOK, PushBlock, Execute, Discard
    <2>3. HistoryOK'
      <3>1. Append(posted, current) \in Seq(SinkEvent)
        BY <1>0, <1>18 DEF PushBlock, SinkThreadInv, HistoryOK
      <3>2. \A f \in Fates : [fate EXCEPT ![f] = @ \cup {current}] \in [Fates -> SUBSET SinkEvent]
        BY <1>0, <1>18 DEF PushBlock, SinkThreadInv, HistoryOK
      <3>3. posted' \in Seq(SinkEvent) /\ fate' \in [Fates -> SUBSET SinkEvent]
        BY <1>0, <1>18, <3>1, <3>2 DEF PushBlock, Execute, NotSent, Discard, HistoryOK, Fates
      <3> QED BY <1>0, <1>18, <3>3 DEF PushBlock, HistoryOK
    <2>4. SendInv'
      BY <1>0, <1>18 DEF SendInv, PushBlock, Execute, Discard
    <2>5. SinkThreadInv'
      BY <1>0, <1>18 DEF SinkThreadInv, PushBlock, Execute, Discard
    <2>6. ShutdownInv'
      BY <1>0, <1>18, NoneNotCaller DEF ShutdownInv, PushBlock, Execute, Discard
    <2>7. QueueSizeAccounting'
      BY <1>0, <1>18
      DEF QueueSizeAccounting, Backlog, InHand, InSend, PushBlock, Execute, Discard
    <2> QED BY <2>1, <2>2, <2>3, <2>4, <2>5, <2>6, <2>7 DEF IndInv, TypeOK
  <1>19. ASSUME FetchSub PROVE IndInv'
    <2>1. CallsOK' /\ StreamsOK' /\ ShutdownOK'
      BY <1>0, <1>19, UnchangedTypes DEF FetchSub
    <2>2. ChannelOK'
      BY <1>0, <1>19 DEF ChannelOK, FetchSub
    <2>3. WorkerOK'
      BY <1>0, <1>19 DEF WorkerOK, FetchSub
    <2>4. HistoryOK'
      BY <1>0, <1>19 DEF HistoryOK, SinkThreadInv, FetchSub
    <2>5. SendInv'
      BY <1>0, <1>19 DEF SendInv, FetchSub
    <2>6. SinkThreadInv'
      BY <1>0, <1>19 DEF SinkThreadInv, FetchSub
    <2>7. ShutdownInv'
      BY <1>0, <1>19, NoneNotCaller DEF ShutdownInv, FetchSub
    <2>8. QueueSizeAccounting'
      <3>1. CASE current = None
        BY <1>0, <1>19, <3>1
        DEF FetchSub, QueueSizeAccounting, Backlog, InHand, InSend, ChannelOK, HistoryOK
      <3>2. CASE current # None
        BY <1>0, <1>19, <3>2
        DEF FetchSub, QueueSizeAccounting, Backlog, InHand, InSend, ChannelOK, HistoryOK
      <3> QED BY <3>1, <3>2
    <2> QED BY <2>1, <2>2, <2>3, <2>4, <2>5, <2>6, <2>7, <2>8 DEF IndInv, TypeOK
  <1>20. ASSUME TickGetSink PROVE IndInv'
    <2>1. ChannelOK' /\ CallsOK' /\ StreamsOK' /\ HistoryOK'
      BY <1>0, <1>20, UnchangedTypes DEF TickGetSink
    <2>2. WorkerOK'
      BY <1>0, <1>20 DEF WorkerOK, TickGetSink
    <2>3. ShutdownOK'
      BY <1>0, <1>20 DEF ShutdownOK, TickGetSink
    <2>4. SendInv'
      BY <1>0, <1>20 DEF SendInv, TickGetSink
    <2>5. SinkThreadInv'
      BY <1>0, <1>20 DEF SinkThreadInv, TickGetSink
    <2>6. ShutdownInv'
      BY <1>0, <1>20, NoneNotCaller DEF ShutdownInv, TickGetSink
    <2>7. QueueSizeAccounting'
      BY <1>0, <1>20 DEF QueueSizeAccounting, Backlog, InHand, InSend, TickGetSink
    <2> QED BY <2>1, <2>2, <2>3, <2>4, <2>5, <2>6, <2>7 DEF IndInv, TypeOK
  <1>21. ASSUME TickIsBusy PROVE IndInv'
    <2>1. ChannelOK' /\ CallsOK' /\ StreamsOK' /\ HistoryOK'
      BY <1>0, <1>21, UnchangedTypes DEF TickIsBusy
    <2>2. WorkerOK'
      BY <1>0, <1>21 DEF WorkerOK, TickIsBusy, AfterIsBusy
    <2>3. ShutdownOK'
      BY <1>0, <1>21 DEF ShutdownOK, TickIsBusy
    <2>4. SendInv'
      BY <1>0, <1>21 DEF SendInv, TickIsBusy
    <2>5. SinkThreadInv'
      BY <1>0, <1>21 DEF SinkThreadInv, TickIsBusy, AfterIsBusy
    <2>6. ShutdownInv'
      BY <1>0, <1>21, NoneNotCaller DEF ShutdownInv, TickIsBusy
    <2>7. QueueSizeAccounting'
      BY <1>0, <1>21 DEF QueueSizeAccounting, Backlog, InHand, InSend, TickIsBusy
    <2> QED BY <2>1, <2>2, <2>3, <2>4, <2>5, <2>6, <2>7 DEF IndInv, TypeOK
  <1>22. ASSUME TickFlush PROVE IndInv'
    <2>1. ChannelOK' /\ ShutdownOK' /\ HistoryOK'
      BY <1>0, <1>22, UnchangedTypes DEF TickFlush, FlushBuffer, CallFlush, CallSend
    <2>2. CallsOK'
      BY <1>0, <1>22, NoneNotCaller, MessageTypes
      DEF CallsOK, StreamsOK, Callers, Streams, TickFlush, FlushBuffer, CallFlush,
          CallSend
    <2>3. StreamsOK'
      BY <1>0, <1>22 DEF StreamsOK, TickFlush, FlushBuffer, CallFlush, CallSend
    <2>4. WorkerOK'
      BY <1>0, <1>22 DEF WorkerOK, TickFlush, FlushBuffer, CallFlush, CallSend
    <2>5. SendInv'
      BY <1>0, <1>22, MessageTypes
      DEF SendInv, CallsOK, StreamsOK, Callers, Streams, TickFlush, FlushBuffer,
          CallFlush, CallSend
    <2>6. SinkThreadInv'
      BY <1>0, <1>22 DEF SinkThreadInv, TickFlush
    <2>7. ShutdownInv'
      BY <1>0, <1>22, NoneNotCaller
      DEF ShutdownInv, CallsOK, Callers, TickFlush, FlushBuffer, CallFlush, CallSend
    <2>8. QueueSizeAccounting'
      BY <1>0, <1>22
      DEF QueueSizeAccounting, Backlog, InHand, InSend, CallsOK, Callers, TickFlush,
          FlushBuffer, CallFlush, CallSend
    <2> QED BY <2>1, <2>2, <2>3, <2>4, <2>5, <2>6, <2>7, <2>8 DEF IndInv, TypeOK
  <1>23. ASSUME SelfJoin PROVE IndInv'
    <2>1. CallsOK' /\ StreamsOK' /\ ShutdownOK' /\ HistoryOK'
      BY <1>0, <1>23, UnchangedTypes DEF SelfJoin, DropReceiver
    <2>2. ChannelOK'
      <3>1. <<>> \in Seq(SinkEvent)
        OBVIOUS
      <3> QED BY <1>0, <1>23, <3>1, NoneNotCaller DEF SelfJoin, DropReceiver, ChannelOK
    <2>3. WorkerOK'
      BY <1>0, <1>23 DEF WorkerOK, SelfJoin, DropReceiver
    <2>4. SendInv'
      BY <1>0, <1>23, NoneNotCaller DEF SendInv, SelfJoin
    <2>5. SinkThreadInv'
      BY <1>0, <1>23 DEF SinkThreadInv, SelfJoin, DropReceiver
    <2>6. ShutdownInv'
      BY <1>0, <1>23, NoneNotCaller DEF ShutdownInv, SendInv, SelfJoin, DropReceiver
    <2>7. QueueSizeAccounting'
      BY <1>0, <1>23
      DEF QueueSizeAccounting, Backlog, InHand, InSend, SelfJoin, DropReceiver,
          DropReceiver
    <2> QED BY <2>1, <2>2, <2>3, <2>4, <2>5, <2>6, <2>7 DEF IndInv, TypeOK
  <1>24. ASSUME RecvTimeout PROVE IndInv'
    <2>1. ChannelOK' /\ CallsOK' /\ StreamsOK' /\ ShutdownOK' /\ HistoryOK'
      BY <1>0, <1>24, UnchangedTypes DEF RecvTimeout
    <2>2. WorkerOK'
      BY <1>0, <1>24 DEF WorkerOK, RecvTimeout
    <2>3. SendInv'
      BY <1>0, <1>24 DEF SendInv, RecvTimeout
    <2>4. SinkThreadInv'
      BY <1>0, <1>24 DEF SinkThreadInv, ChannelOK, HistoryOK, RecvTimeout
    <2>5. ShutdownInv'
      BY <1>0, <1>24, NoneNotCaller DEF ShutdownInv, RecvTimeout
    <2>6. QueueSizeAccounting'
      BY <1>0, <1>24 DEF QueueSizeAccounting, Backlog, InHand, InSend, RecvTimeout
    <2> QED BY <2>1, <2>2, <2>3, <2>4, <2>5, <2>6 DEF IndInv, TypeOK
  <1>25. ASSUME LogFromSinkThread PROVE IndInv'
    <2>1. ChannelOK' /\ WorkerOK' /\ ShutdownOK' /\ HistoryOK'
      BY <1>0, <1>25, UnchangedTypes DEF LogFromSinkThread, CallFlush, CallSend
    <2>2. CallsOK'
      BY <1>0, <1>25, NoneNotCaller, MessageTypes
      DEF CallsOK, StreamsOK, Callers, Streams, LogFromSinkThread, CallFlush, CallSend
    <2>3. StreamsOK'
      BY <1>0, <1>25 DEF StreamsOK, Streams, LogFromSinkThread, CallFlush
    <2>4. SendInv'
      BY <1>0, <1>25, MessageTypes
      DEF SendInv, CallsOK, StreamsOK, Callers, Streams, LogFromSinkThread, CallFlush,
          CallSend
    <2>5. SinkThreadInv'
      BY <1>0, <1>25 DEF SinkThreadInv, LogFromSinkThread
    <2>6. ShutdownInv'
      BY <1>0, <1>25, NoneNotCaller
      DEF ShutdownInv, CallsOK, Callers, LogFromSinkThread, CallFlush, CallSend
    <2>7. QueueSizeAccounting'
      BY <1>0, <1>25
      DEF QueueSizeAccounting, Backlog, InHand, InSend, CallsOK, Callers,
          LogFromSinkThread, CallFlush, CallSend
    <2> QED BY <2>1, <2>2, <2>3, <2>4, <2>5, <2>6, <2>7 DEF IndInv, TypeOK
  <1>26. CASE UNCHANGED vars
    <2>1. TypeOK'
      BY <1>0, <1>26, UnchangedTypes DEF vars, TypeOK
    <2>2. SendInv' /\ SinkThreadInv' /\ ShutdownInv'
      BY <1>0, <1>26 DEF vars, SendInv, SinkThreadInv, ShutdownInv
    <2>3. QueueSizeAccounting'
      BY <1>0, <1>26 DEF vars, QueueSizeAccounting, Backlog, InHand, InSend
    <2> QED BY <2>1, <2>2, <2>3 DEF IndInv
  <1> QED
    BY <1>1, <1>2, <1>3, <1>4, <1>5, <1>6, <1>7, <1>8, <1>9, <1>10, <1>11, <1>12, <1>13,
       <1>14, <1>15, <1>16, <1>17, <1>18, <1>19, <1>20, <1>21, <1>22, <1>23, <1>24,
       <1>25, <1>26
    DEF Next, AppStep, ShutdownStep, SinkStep, Send

-----------------------------------------------------------------------------

LEMMA Inductive == Spec => []IndInv
  BY InitIndInv, NextIndInv, PTL DEF Spec

(***************************************************************************)
(* Type correctness of the sink, its callers and its shutdown; retries of  *)
(* push_process and push_stream never exceed the retry strategy.           *)
(***************************************************************************)
THEOREM TypeCorrect == Spec => []TypeOK
  <1>1. IndInv => TypeOK
    BY DEF IndInv
  <1> QED BY <1>1, Inductive, PTL

(***************************************************************************)
(* For any number of threads, streams, blocks and timeouts, queue_size is  *)
(* the backlog of the sink thread less its receive timeouts.               *)
(***************************************************************************)
THEOREM AccountingHolds == Spec => []QueueSizeAccounting
  <1>1. IndInv => QueueSizeAccounting
    BY DEF IndInv
  <1> QED BY <1>1, Inductive, PTL

(* Only push_block discards a message. *)
LEMMA OnlyPushBlockDiscards == ASSUME [Next]_vars, ~PushBlock PROVE fate' = fate
  <1> USE DEF channel, calls, streams, worker, shutdown, history
  <1>1. AppStep => fate' = fate
    BY DEF AppStep, DispatchNew, InitEventDispatch, InitThreadStream, FlushStream,
           ShutdownTelemetry
  <1>2. ShutdownStep => fate' = fate
    BY DEF ShutdownStep, ShutdownFlush, ReleaseSink, DropLock, DropJoin, StoreNullSink
  <1>3. (\E c \in Callers : Send(c)) => fate' = fate
    BY DEF Send, SendLock, SendPush, SendError
  <1>4. SinkStep => fate' = fate
    BY DEF SinkStep, ThreadStart, Recv, RecvDisconnected, PushMetadata, Execute, NotSent,
           FetchSub, TickGetSink, TickIsBusy, TickFlush, SelfJoin
  <1>5. RecvTimeout \/ LogFromSinkThread => fate' = fate
    BY DEF RecvTimeout, LogFromSinkThread
  <1> QED BY <1>1, <1>2, <1>3, <1>4, <1>5 DEF Next, vars

(***************************************************************************)
(* push_block gives up a block only when at least max_queue_size messages  *)
(* wait for the sink thread: the drift of queue_size errs on the side of   *)
(* keeping data.                                                           *)
(***************************************************************************)
THEOREM DropsAreBacklogged == Spec => DropsOnlyWhenBacklogged
  <1>1. ASSUME IndInv, [Next]_vars, fate'["dropped"] # fate["dropped"]
        PROVE  Backlog >= max_queue_size
    <2>1. PushBlock
      BY <1>1, OnlyPushBlockDiscards
    <2>2. queue_size >= max_queue_size
      BY <1>1, <2>1
      DEF PushBlock, Discard, Execute, NotSent, OverMaxQueueSize, IndInv, TypeOK,
          HistoryOK, Fates
    <2>3. Backlog = queue_size + drift
      <3>1. receiver /\ queue_size \in Int /\ drift \in Nat /\ Len(queue) \in Nat
        BY <1>1, <2>1, ConstantsAssumption
        DEF PushBlock, IndInv, SinkThreadInv, TypeOK, ChannelOK, HistoryOK
      <3>2. InHand \in Nat /\ InSend \in Nat
        BY DEF InHand, InSend
      <3> QED BY <1>1, <3>1, <3>2 DEF IndInv, QueueSizeAccounting, Backlog
    <2> QED
      BY <1>1, <2>2, <2>3, ConstantsAssumption DEF IndInv, TypeOK, ChannelOK, HistoryOK
  <1>2. IndInv /\ [Next]_vars
          => [fate'["dropped"] # fate["dropped"] => Backlog >= max_queue_size]_vars
    BY <1>1
  <1> QED BY <1>2, Inductive, PTL DEF Spec, DropsOnlyWhenBacklogged
-----------------------------------------------------------------------------
(***************************************************************************)
(* Order.  The argument goes through the sequence accepted.  The mutexes   *)
(* and the boot sequence order it (OrderInv); the channel is its tail      *)
(* (FifoInv); and the requests follow it, as the sink thread takes one     *)
(* message at a time (PostedInv).                                          *)
(***************************************************************************)

(* How many accepted messages the sink thread has taken from the channel. *)
Taken == handled + InHand

(* The message in hand and the channel are what is left of accepted. *)
FifoInv ==
    /\ Taken <= Len(accepted)
    /\ current # None => accepted[handled + 1] = current
    /\ receiver => /\ Len(accepted) = Taken + Len(queue)
                   /\ \A k \in 1 .. Len(queue) : queue[k] = accepted[Taken + k]

(* A sink thread that has got to its loop ends it with nothing left over;  *)
(* Startup is done with before the next message is taken.                  *)
LoopInv ==
    /\ wpc = "start" => ~opt_process_info
    /\ wpc = "exited" /\ opt_process_info => handled = Len(accepted)
    /\ wpc \in {"exited", "panicked"} => current = None /\ ~receiver
    /\ handled > 0 => opt_process_info
    /\ wpc = "sub" /\ current = Startup => opt_process_info
    /\ wpc = "handle" /\ current.kind = "Block" => attempts = 0

(* When m is sent before n: blocks of a stream are in order, and after a   *)
(* block there is no announcement of its stream.                           *)
Before(m, n) ==
    m.kind = "Block" /\ n.stream = m.stream => n.kind = "Block" /\ m.seq < n.seq

(* A block is numbered by its stream. *)
Numbered(m) == m.kind = "Block" => m.seq < next[m.stream]

(* The order of what was accepted. *)
AcceptedInv ==
    /\ accepted # <<>> => accepted[1] = Startup
    /\ \A b \in DOMAIN accepted :
          /\ accepted[b] \in Messages
          /\ accepted[b] = Startup => b = 1
          /\ Numbered(accepted[b])
    /\ \A a, b \in DOMAIN accepted : a < b => Before(accepted[a], accepted[b])

(* What is being sent comes after what was accepted, and at most one call  *)
(* concerns a stream while a block of it is on its way.                    *)
SendingInv ==
    \A c \in Callers : spc[c] # "idle" =>
        /\ smsg[c] \in Messages
        /\ Numbered(smsg[c])
        /\ \A a \in DOMAIN accepted : Before(accepted[a], smsg[c])
        /\ smsg[c].kind = "Block" =>
              \A d \in Callers \ {c} : spc[d] # "idle" => smsg[d].stream # smsg[c].stream

(* The sender is closed, by whichever thread, after the dispatch has let   *)
(* the sink go.                                                            *)
OpenInv ==
    /\ ~sender => dispatch # "none"
    /\ "dispatch" \notin refs => dispatch # "none"
    /\ wpc = "drop" => "dispatch" \notin refs

(* Until the dispatch is published Main alone sends, the boot messages in  *)
(* their order, and the first of them is accepted if any is.               *)
BootInv ==
    /\ \A c \in Callers : spc[c] \in {"error", "stuck"} => ~receiver
    /\ booted < 2 => next[Log] = 0
    /\ booted < 3 => next[Metrics] = 0
    /\ \A c \in Callers : spc[c] # "idle" =>
          IF dispatch = "none"
          THEN c = Main /\ booted \in 1 .. 3 /\ smsg[c] = BootMessage[booted]
          ELSE smsg[c].kind = "Block" \/ (c \in Traced /\ smsg[c] = InitStream(c))
    /\ booted = 0 \/ (booted = 1 /\ spc[Main] # "idle") => accepted = <<>>
    /\ booted > 1 \/ (booted = 1 /\ spc[Main] = "idle") => accepted # <<>> \/ ~receiver

OrderInv == OpenInv /\ BootInv /\ AcceptedInv /\ SendingInv

(* Every request is an accepted message; requests follow the order of the  *)
(* accepted messages, and no block is behind two of them.                  *)
PostedInv ==
    /\ \A j \in DOMAIN posted : \E b \in 1 .. Taken :
          /\ accepted[b] = posted[j]
          /\ wpc = "handle" /\ current.kind = "Block" => b <= handled
    /\ \A i, j \in DOMAIN posted : i < j =>
          \E a, b \in 1 .. Taken :
              /\ a <= b
              /\ accepted[a] = posted[i] /\ accepted[b] = posted[j]
              /\ posted[j].kind = "Block" => a < b
    /\ fate["rejected"] = {}

ServiceInv == FifoInv /\ LoopInv /\ OrderInv /\ PostedInv

-----------------------------------------------------------------------------
(***************************************************************************)
(* Who changes what.                                                       *)
(***************************************************************************)

(* Streams are flushed after the dispatch is published, the shared ones by *)
(* any caller and a thread stream by its thread.                           *)
Flushes(c, s) ==
    /\ dispatch = "http"
    /\ s \in Streams
    /\ s \in {Log, Metrics} \/ s = c
    /\ CallFlush(c, s)

(* The sink's own variables do not move. *)
ServiceUnchanged ==
    UNCHANGED <<receiver, queue, accepted, handled, current, attempts,
                opt_process_info, posted, fate>>

(* A step of the sink thread outside of its loop. *)
Elsewhere ==
    /\ ServiceUnchanged
    /\ UNCHANGED wpc \/ /\ wpc' \notin {"start", "handle", "exited", "panicked"}
                         /\ wpc \in {"start", "recv", "tick", "busy", "flushLog",
                                     "flushMetrics", "drop"}

LEMMA WhoServes ==
    ASSUME [Next]_vars
    PROVE  \/ \E c \in Callers : SendPush(c)
           \/ ThreadStart \/ Recv \/ RecvDisconnected \/ PushMetadata \/ PushBlock
           \/ FetchSub \/ SelfJoin
           \/ Elsewhere
  <1> USE DEF channel, calls, streams, worker, shutdown, history, Elsewhere,
              ServiceUnchanged
  <1>1. AppStep => Elsewhere
    BY DEF AppStep, DispatchNew, InitEventDispatch, InitThreadStream, FlushStream,
           ShutdownTelemetry
  <1>2. ShutdownStep => Elsewhere
    BY DEF ShutdownStep, ShutdownFlush, ReleaseSink, DropLock, DropJoin, StoreNullSink
  <1>3. ASSUME NEW c \in Callers, Send(c) PROVE SendPush(c) \/ Elsewhere
    BY <1>3 DEF Send, SendLock, SendError
  <1>4. TickGetSink => Elsewhere
    BY DEF TickGetSink
  <1>5. TickIsBusy => Elsewhere
    BY DEF TickIsBusy, AfterIsBusy
  <1>6. TickFlush => Elsewhere
    BY DEF TickFlush
  <1>7. RecvTimeout => Elsewhere
    BY DEF RecvTimeout
  <1>8. LogFromSinkThread => Elsewhere
    BY DEF LogFromSinkThread
  <1>9. UNCHANGED vars => Elsewhere
    BY DEF vars
  <1> QED BY <1>1, <1>2, <1>3, <1>4, <1>5, <1>6, <1>7, <1>8, <1>9 DEF Next, SinkStep

LEMMA WhoCalls ==
    ASSUME [Next]_vars
    PROVE  \/ \E c \in Callers : SendLock(c) \/ SendPush(c) \/ SendError(c)
           \/ DispatchNew \/ InitEventDispatch
           \/ \E t \in Threads : InitThreadStream(t)
           \/ \E c \in Callers, s \in Streams :
                 Flushes(c, s) /\ UNCHANGED <<receiver, accepted>>
           \/ StoreNullSink
           \/ UNCHANGED <<calls, streams, accepted>> /\ (receiver' => receiver)
  <1> USE NoneNotCaller, ConstantsAssumption
      DEF channel, calls, streams, worker, shutdown, history
  <1> DEFINE F == \E c \in Callers, s \in Streams :
                     Flushes(c, s) /\ UNCHANGED <<receiver, accepted>>
             U == UNCHANGED <<calls, streams, accepted>> /\ (receiver' => receiver)
  <1>1. ASSUME NEW t \in Threads, NEW s \in Streams, FlushStream(t, s) PROVE F
    BY <1>1 DEF FlushStream, AppRunning, Flushes, Callers
  <1>2. ShutdownFlush => F \/ U
    BY DEF ShutdownFlush, FlushBuffer, Flushes, Streams
  <1>3. TickFlush => F \/ U
    BY DEF TickFlush, FlushBuffer, Flushes, Streams
  <1>4. LogFromSinkThread => F
    BY DEF LogFromSinkThread, Flushes, Streams
  <1>5. ShutdownTelemetry \/ ReleaseSink \/ DropLock \/ DropJoin => U
    BY DEF ShutdownTelemetry, ReleaseSink, DropLock, DropJoin
  <1>6. ThreadStart \/ Recv \/ RecvDisconnected \/ RecvTimeout \/ SelfJoin => U
    BY DEF ThreadStart, Recv, RecvDisconnected, RecvTimeout, SelfJoin, DropReceiver
  <1>7. PushMetadata \/ PushBlock \/ FetchSub \/ TickGetSink \/ TickIsBusy => U
    BY DEF PushMetadata, PushBlock, FetchSub, TickGetSink, TickIsBusy
  <1>8. UNCHANGED vars => U
    BY DEF vars
  <1> QED
    BY <1>1, <1>2, <1>3, <1>4, <1>5, <1>6, <1>7, <1>8
    DEF Next, AppStep, ShutdownStep, SinkStep, Send

-----------------------------------------------------------------------------
(***************************************************************************)
(* The channel is the tail of accepted.                                    *)
(***************************************************************************)

(* The sink thread has a message in hand or not. *)
LEMMA InHandCases ==
    /\ InHand \in {0, 1}
    /\ current = None <=> InHand = 0
    /\ current' = current => InHand' = InHand
    /\ current' = None => InHand' = 0
    /\ current' # None => InHand' = 1
  BY DEF InHand

LEMMA NextFifoInv == ASSUME IndInv, FifoInv, [Next]_vars PROVE FifoInv'
  <1> USE ConstantsAssumption DEF channel, calls, streams, worker, shutdown, history
  <1>0. /\ queue \in Seq(SinkEvent) /\ accepted \in Seq(SinkEvent) /\ handled \in Nat
        /\ Taken \in Nat /\ None \notin SinkEvent /\ SinkThreadInv /\ SendInv
    BY InHandCases
    DEF IndInv, TypeOK, ChannelOK, HistoryOK, Taken
  <1>1. ASSUME NEW c \in Callers, SendPush(c) PROVE FifoInv'
    <2>1. handled' = handled /\ current' = current /\ receiver' = receiver
          /\ Taken' = Taken /\ smsg[c] \in SinkEvent
      BY <1>0, <1>1, InHandCases DEF SendPush, Taken, SendInv
    <2>2. CASE receiver
      <3>1. queue' = Append(queue, smsg[c]) /\ accepted' = Append(accepted, smsg[c])
        BY <1>1, <2>2 DEF SendPush, Enqueue
      <3>2. /\ Len(accepted') = Len(accepted) + 1 /\ Len(queue') = Len(queue) + 1
            /\ \A i \in 1 .. Len(accepted) : accepted'[i] = accepted[i]
            /\ accepted'[Len(accepted) + 1] = smsg[c]
            /\ \A k \in 1 .. Len(queue) : queue'[k] = queue[k]
            /\ queue'[Len(queue) + 1] = smsg[c]
        BY <1>0, <2>1, <3>1
      <3>3. Len(accepted) = Taken + Len(queue) /\ Len(queue) \in Nat
        BY <1>0, <2>2 DEF FifoInv
      <3>4. current' # None => accepted'[handled' + 1] = current'
        <4>1. current # None => handled + 1 \in 1 .. Len(accepted)
          BY <1>0, InHandCases DEF FifoInv, Taken
        <4> QED BY <2>1, <3>2, <4>1 DEF FifoInv
      <3>5. ASSUME NEW k \in 1 .. Len(queue') PROVE queue'[k] = accepted'[Taken' + k]
        <4>1. CASE k \in 1 .. Len(queue)
          <5>1. queue[k] = accepted[Taken + k]
            BY <2>2, <4>1 DEF FifoInv
          <5>2. Taken + k \in 1 .. Len(accepted)
            BY <1>0, <3>3, <4>1
          <5> QED BY <2>1, <3>2, <4>1, <5>1, <5>2
        <4>2. CASE k = Len(queue) + 1
          <5>1. Taken' + k = Len(accepted) + 1
            BY <1>0, <2>1, <3>3, <4>2
          <5>2. queue'[k] = smsg[c]
            BY <3>2, <4>2
          <5>3. accepted'[Taken' + k] = smsg[c]
            BY <3>2, <5>1
          <5> QED BY <5>2, <5>3
        <4> QED BY <3>2, <3>3, <4>1, <4>2
      <3> QED BY <1>0, <2>1, <2>2, <3>2, <3>3, <3>4, <3>5 DEF FifoInv
    <2>3. CASE ~receiver
      BY <1>0, <1>1, <2>1, <2>3 DEF SendPush, FifoInv
    <2> QED BY <2>2, <2>3
  <1>2. ASSUME Recv PROVE FifoInv'
    <2>1. current = None /\ current' = Head(queue) /\ queue' = Tail(queue) /\ queue # <<>>
          /\ accepted' = accepted /\ handled' = handled /\ receiver' = receiver /\ receiver
      BY <1>0, <1>2 DEF Recv, SinkThreadInv
    <2>2. current' # None /\ Taken = handled /\ Taken' = handled + 1
      BY <1>0, <2>1, InHandCases DEF Taken
    <2>3. accepted[handled + 1] = Head(queue)
      <3>1. 1 \in 1 .. Len(queue) /\ Head(queue) = queue[1]
        BY <1>0, <2>1
      <3>2. queue[1] = accepted[Taken + 1]
        BY <2>1, <3>1 DEF FifoInv
      <3> QED BY <2>2, <3>1, <3>2
    <2>4. Len(accepted) = Taken' + Len(queue')
      <3>1. Len(queue') = Len(queue) - 1 /\ Len(queue) \in Nat
        BY <1>0, <2>1
      <3>2. Len(accepted) = Taken + Len(queue)
        BY <2>1 DEF FifoInv
      <3> QED BY <1>0, <2>2, <3>1, <3>2
    <2>5. \A k \in 1 .. Len(queue') : queue'[k] = accepted[Taken' + k]
      <3>1. \A k \in 1 .. Len(queue') : queue'[k] = queue[k + 1] /\ k + 1 \in 1 .. Len(queue)
        BY <1>0, <2>1
      <3>2. \A k \in 1 .. Len(queue') : queue[k + 1] = accepted[Taken + (k + 1)]
        BY <3>1, <2>1 DEF FifoInv
      <3> QED BY <1>0, <2>2, <3>1, <3>2
    <2> QED BY <1>0, <2>1, <2>2, <2>3, <2>4, <2>5 DEF FifoInv
  <1>3. ASSUME FetchSub PROVE FifoInv'
    <2>1. Taken' = Taken /\ current' = None
      BY <1>0, <1>3, InHandCases DEF FetchSub, Taken
    <2> QED BY <1>0, <1>3, <2>1 DEF FetchSub, FifoInv
  <1>4. ASSUME ThreadStart \/ RecvDisconnected \/ SelfJoin PROVE FifoInv'
    <2>1. /\ accepted' = accepted /\ handled' = handled /\ current' = current
          /\ receiver' => receiver /\ queue' = queue
      BY <1>0, <1>4 DEF ThreadStart, RecvDisconnected, SelfJoin, DropReceiver, SinkThreadInv
    <2>2. Taken' = Taken
      BY <2>1, InHandCases DEF Taken
    <2> QED BY <2>1, <2>2 DEF FifoInv
  <1>5. ASSUME PushMetadata \/ PushBlock \/ Elsewhere PROVE FifoInv'
    <2>1. UNCHANGED <<receiver, queue, accepted, handled, current>>
      BY <1>5 DEF PushMetadata, PushBlock, Elsewhere, ServiceUnchanged
    <2>2. Taken' = Taken
      BY <2>1, InHandCases DEF Taken
    <2> QED BY <2>1, <2>2 DEF FifoInv
  <1> QED BY <1>1, <1>2, <1>3, <1>4, <1>5, WhoServes

(* A message in hand is a message, and the first one is Startup. *)
LEMMA InHandIsAccepted ==
    ASSUME IndInv, FifoInv, AcceptedInv, current # None
    PROVE  /\ handled + 1 \in DOMAIN accepted
           /\ current = accepted[handled + 1]
           /\ current \in Messages
           /\ handled = 0 => current = Startup
  <1>1. accepted \in Seq(SinkEvent) /\ handled \in Nat
    BY DEF IndInv, TypeOK, HistoryOK
  <1>2. handled + 1 \in DOMAIN accepted
    BY <1>1, InHandCases DEF FifoInv, Taken
  <1>3. accepted # <<>>
    BY <1>1, <1>2
  <1> QED BY <1>1, <1>2, <1>3 DEF FifoInv, AcceptedInv

(* The three kinds of messages. *)
LEMMA MessageKinds ==
    ASSUME NEW m \in Messages
    PROVE  /\ m \in SinkEvent
           /\ m.kind = "Startup" <=> m = Startup
           /\ m.kind = "InitStream" => m.stream \in Streams /\ m = InitStream(m.stream)
           /\ m.kind = "Block" => /\ m.stream \in Streams
                                  /\ m.seq \in 1 .. MaxBlocks[m.stream]
           /\ m.kind \in {"Startup", "InitStream", "Block"}
  <1> USE ConstantsAssumption DEF Startup, InitStream, Block, SinkEvent
  <1>1. CASE m = Startup
    BY <1>1
  <1>2. CASE \E s \in Streams : m = InitStream(s)
    BY <1>2
  <1>3. CASE \E s \in Streams : \E n \in 1 .. MaxBlocks[s] : m = Block(s, n)
    BY <1>3
  <1> QED BY <1>1, <1>2, <1>3 DEF Messages

LEMMA NextLoopInv ==
    ASSUME IndInv, FifoInv, AcceptedInv, LoopInv, [Next]_vars PROVE LoopInv'
  <1> USE ConstantsAssumption DEF channel, calls, streams, worker, shutdown, history
  <1>0. /\ queue \in Seq(SinkEvent) /\ accepted \in Seq(SinkEvent) /\ handled \in Nat
        /\ None \notin SinkEvent /\ SinkThreadInv /\ opt_process_info \in BOOLEAN
        /\ current \in SinkEvent \cup {None}
    BY DEF IndInv, TypeOK, ChannelOK, WorkerOK, HistoryOK
  <1>1. ASSUME NEW c \in Callers, SendPush(c) PROVE LoopInv'
    <2>1. CASE receiver
      BY <1>1, <2>1 DEF SendPush, LoopInv
    <2>2. CASE ~receiver
      BY <1>1, <2>2 DEF SendPush, LoopInv
    <2> QED BY <2>1, <2>2
  <1>2. ASSUME ThreadStart PROVE LoopInv'
    BY <1>0, <1>2 DEF ThreadStart, DropReceiver, SinkThreadInv, LoopInv
  <1>3. ASSUME Recv PROVE LoopInv'
    BY <1>0, <1>3 DEF Recv, LoopInv
  <1>4. ASSUME RecvDisconnected PROVE LoopInv'
    <2>1. queue = <<>> /\ current = None /\ receiver /\ ~receiver'
          /\ UNCHANGED <<accepted, handled, current, opt_process_info>> /\ wpc' = "exited"
      BY <1>0, <1>4 DEF RecvDisconnected, Disconnected, DropReceiver, SinkThreadInv
    <2>2. handled = Len(accepted)
      BY <1>0, <2>1, InHandCases DEF FifoInv, Taken
    <2> QED BY <2>1, <2>2 DEF LoopInv
  <1>5. ASSUME PushMetadata PROVE LoopInv'
    <2>1. wpc = "handle" /\ wpc' \in {"handle", "sub"} /\ current' = current
          /\ UNCHANGED <<accepted, handled, receiver>>
          /\ current.kind \in {"Startup", "InitStream"}
          /\ opt_process_info' = (opt_process_info \/ current.kind = "Startup")
      BY <1>5 DEF PushMetadata
    <2>2. current = Startup => current.kind = "Startup"
      BY DEF Startup
    <2> QED BY <1>0, <2>1, <2>2 DEF LoopInv
  <1>6. ASSUME PushBlock PROVE LoopInv'
    <2>1. wpc = "handle" /\ wpc' = "sub" /\ current' = current /\ current.kind = "Block"
          /\ UNCHANGED <<accepted, handled, receiver, opt_process_info>>
      BY <1>6 DEF PushBlock, Discard
    <2>2. current # Startup
      BY <2>1 DEF Startup
    <2> QED BY <2>1, <2>2 DEF LoopInv
  <1>7. ASSUME FetchSub PROVE LoopInv'
    <2>1. wpc = "sub" /\ wpc' = "recv" /\ current' = None
          /\ UNCHANGED <<accepted, receiver, opt_process_info>>
          /\ handled' = IF current = None THEN handled ELSE handled + 1
      BY <1>7 DEF FetchSub
    <2>2. current # None => opt_process_info
      BY <1>0, <2>1, InHandIsAccepted DEF LoopInv
    <2> QED BY <1>0, <2>1, <2>2 DEF LoopInv
  <1>8. ASSUME SelfJoin PROVE LoopInv'
    BY <1>0, <1>8 DEF SelfJoin, DropReceiver, SinkThreadInv, LoopInv
  <1>9. ASSUME Elsewhere PROVE LoopInv'
    <2>1. CASE UNCHANGED wpc
      BY <1>9, <2>1 DEF Elsewhere, ServiceUnchanged, LoopInv
    <2>2. CASE ~UNCHANGED wpc
      <3>1. current = None /\ None # Startup
        BY <1>0, <1>9, <2>2, MessageTypes DEF Elsewhere, SinkThreadInv
      <3> QED BY <1>9, <2>2, <3>1 DEF Elsewhere, ServiceUnchanged, LoopInv
    <2> QED BY <2>1, <2>2
  <1> QED BY <1>1, <1>2, <1>3, <1>4, <1>5, <1>6, <1>7, <1>8, <1>9, WhoServes

-----------------------------------------------------------------------------
(***************************************************************************)
(* The order of what is accepted.                                          *)
(***************************************************************************)

(* Appending to accepted keeps what is there and adds one message. *)
LEMMA AcceptedAppend ==
    ASSUME NEW m, accepted \in Seq(SinkEvent), m \in SinkEvent,
           accepted' = Append(accepted, m)
    PROVE  /\ DOMAIN accepted' = DOMAIN accepted \cup {Len(accepted) + 1}
           /\ \A a \in DOMAIN accepted : a < Len(accepted) + 1 /\ accepted'[a] = accepted[a]
           /\ accepted'[Len(accepted) + 1] = m
           /\ accepted' # <<>>
           /\ accepted # <<>> => accepted'[1] = accepted[1]
           /\ accepted = <<>> => Len(accepted) + 1 = 1
  OBVIOUS

(* The boot messages. *)
LEMMA BootMessages ==
    /\ BootMessage[1] = Startup
    /\ BootMessage[2] = InitStream(Log)
    /\ BootMessage[3] = InitStream(Metrics)
    /\ \A i \in 1 .. 3 : BootMessage[i] \in Messages /\ BootMessage[i].kind # "Block"
    /\ Startup \in Messages /\ Startup.kind = "Startup" /\ Startup.stream \notin Streams
    /\ \A s \in Streams : /\ InitStream(s) \in Messages
                          /\ InitStream(s).kind = "InitStream" /\ InitStream(s).stream = s
  <1>1. \A s \in Streams : InitStream(s) \in Messages
    BY DEF Messages
  <1>2. Startup \in Messages
    BY DEF Messages
  <1>3. Startup.stream \notin Streams
    BY ConstantsAssumption DEF Startup, Streams
  <1> QED BY <1>1, <1>2, <1>3 DEF BootMessage, Startup, InitStream, Streams

(* A call that returns leaves the others where they were. *)
LEMMA ReturnEffect ==
    ASSUME CallsOK, NEW c \in Callers, Return(c)
    PROVE  /\ spc'[c] = "idle"
           /\ \A d \in Callers \ {c} : spc'[d] = spc[d] /\ smsg'[d] = smsg[d]
  BY DEF CallsOK, Return

(* So does a call that begins. *)
LEMMA CallSendEffect ==
    ASSUME CallsOK, NEW c \in Callers, NEW m, CallSend(c, m)
    PROVE  /\ spc[c] = "idle" /\ spc'[c] = "lock" /\ smsg'[c] = m
           /\ \A d \in Callers \ {c} : spc'[d] = spc[d] /\ smsg'[d] = smsg[d]
  BY DEF CallsOK, CallSend

(* The first message that is accepted is Startup, and only that. *)
LEMMA FirstIsStartup ==
    ASSUME IndInv, OrderInv, NEW c \in Callers, spc[c] # "idle", receiver
    PROVE  accepted = <<>> <=> smsg[c] = Startup
  <1>1. booted \in 0 .. 3 /\ (dispatch # "none" => booted = 3) /\ Startup.kind = "Startup"
    BY BootMessages DEF IndInv, TypeOK, StreamsOK, ShutdownInv
  <1>2. CASE dispatch = "none"
    <2>1. c = Main /\ booted \in 1 .. 3 /\ smsg[c] = BootMessage[booted]
      BY <1>2 DEF OrderInv, BootInv
    <2>2. booted = 1 => accepted = <<>>
      BY <2>1 DEF OrderInv, BootInv
    <2>3. booted > 1 => accepted # <<>>
      BY DEF OrderInv, BootInv
    <2>4. booted = 1 \/ booted = 2 \/ booted = 3
      BY <2>1
    <2>5. InitStream(Log) # Startup /\ InitStream(Metrics) # Startup
      BY DEF InitStream, Startup
    <2> QED BY <2>1, <2>2, <2>3, <2>4, <2>5, BootMessages
  <1>3. CASE dispatch # "none"
    <2>1. accepted # <<>>
      BY <1>1, <1>3 DEF OrderInv, BootInv
    <2>2. smsg[c] # Startup
      <3>1. smsg[c].kind = "Block" \/ smsg[c] = InitStream(c)
        BY <1>3 DEF OrderInv, BootInv
      <3>2. InitStream(c).kind = "InitStream"
        BY DEF InitStream
      <3> QED BY <1>1, <3>1, <3>2
    <2> QED BY <2>1, <2>2
  <1> QED BY <1>2, <1>3

(* Several facts that the proofs about single actions use. *)
LEMMA OrderTypes ==
    ASSUME IndInv, OrderInv
    PROVE  /\ CallsOK /\ StreamsOK /\ accepted \in Seq(SinkEvent) /\ SendInv /\ ShutdownInv
           /\ OpenInv /\ BootInv /\ AcceptedInv /\ SendingInv
  BY DEF IndInv, TypeOK, HistoryOK, OrderInv

LEMMA NextOpenInv == ASSUME IndInv, OpenInv, [Next]_vars PROVE OpenInv'
  <1> USE DEF channel, calls, streams, worker, shutdown, history, OpenInv
  <1>1. CASE AppStep
    BY <1>1 DEF AppStep, DispatchNew, InitEventDispatch, InitThreadStream, FlushStream,
                ShutdownTelemetry, CallFlush
  <1>2. CASE ShutdownFlush \/ DropJoin \/ StoreNullSink
    BY <1>2 DEF ShutdownFlush, FlushBuffer, CallFlush, DropJoin, StoreNullSink
  <1>3. CASE ReleaseSink
    BY <1>3 DEF ReleaseSink, IndInv, ShutdownInv
  <1>4. CASE DropLock
    BY <1>4 DEF DropLock, IndInv, ShutdownInv
  <1>5. CASE \E c \in Callers : Send(c)
    BY <1>5 DEF Send, SendLock, SendPush, SendError
  <1>6. CASE ThreadStart \/ Recv \/ RecvDisconnected \/ RecvTimeout \/ SelfJoin
    BY <1>6 DEF ThreadStart, Recv, RecvDisconnected, RecvTimeout, SelfJoin
  <1>7. CASE PushMetadata \/ PushBlock \/ FetchSub
    BY <1>7 DEF PushMetadata, PushBlock, Discard, FetchSub
  <1>8. CASE TickGetSink \/ TickIsBusy
    BY <1>8 DEF TickGetSink, TickIsBusy, AfterIsBusy
  <1>9. CASE TickFlush \/ LogFromSinkThread
    BY <1>9 DEF TickFlush, FlushBuffer, CallFlush, LogFromSinkThread
  <1>10. CASE UNCHANGED vars
    BY <1>10 DEF vars
  <1> QED
    BY <1>1, <1>2, <1>3, <1>4, <1>5, <1>6, <1>7, <1>8, <1>9, <1>10
    DEF Next, ShutdownStep, SinkStep

(* Calls end, or go on, without a message being accepted. *)
LEMMA CallsEnd ==
    ASSUME IndInv, OrderInv, UNCHANGED <<streams, accepted, receiver>>,
           NEW c \in Callers, spc[c] # "idle",
           \A d \in Callers \ {c} : spc'[d] = spc[d] /\ smsg'[d] = smsg[d],
           spc'[c] # "idle" => smsg'[c] = smsg[c],
           spc'[c] \in {"error", "stuck"} => ~receiver,
           spc'[c] = "idle" => dispatch # "none" \/ ~receiver
    PROVE  (BootInv /\ AcceptedInv /\ SendingInv)'
  <1> USE OrderTypes, NoneNotCaller DEF streams
  <1>1. AcceptedInv'
    BY DEF AcceptedInv, Numbered
  <1>2. SendingInv'
    BY DEF SendingInv, Numbered
  <1>3. BootInv'
    <2>1. \A d \in Callers : spc'[d] \in {"error", "stuck"} => ~receiver
      BY DEF BootInv
    <2>2. \A d \in Callers : spc'[d] # "idle" => spc[d] # "idle" /\ smsg'[d] = smsg[d]
      OBVIOUS
    <2>3. booted = 1 /\ spc'[Main] = "idle" => accepted # <<>> \/ ~receiver
      BY DEF BootInv, ShutdownInv
    <2> QED BY <2>1, <2>2, <2>3 DEF BootInv
  <1> QED BY <1>1, <1>2, <1>3

(* After the boot sequence a call begins with a message that comes after   *)
(* all accepted ones, of a stream that no other call concerns.             *)
LEMMA CallBegins ==
    ASSUME IndInv, OrderInv, dispatch # "none",
           UNCHANGED <<booted, dispatch, accepted, receiver>>,
           \A s \in Streams : next'[s] \in Nat /\ next'[s] >= next[s],
           NEW c \in Callers, NEW m \in Messages, CallSend(c, m),
           m.kind = "Block" \/ (c \in Traced /\ m = InitStream(c)),
           m.kind = "Block" => m.seq < next'[m.stream],
           \A a \in DOMAIN accepted : Before(accepted[a], m),
           \A d \in Callers \ {c} : spc[d] # "idle" /\ "Block" \in {m.kind, smsg[d].kind}
                                      => smsg[d].stream # m.stream
    PROVE  (BootInv /\ AcceptedInv /\ SendingInv)'
  <1> USE OrderTypes, NoneNotCaller
  <1>1. /\ spc[c] = "idle" /\ spc'[c] = "lock" /\ smsg'[c] = m
        /\ \A d \in Callers \ {c} : spc'[d] = spc[d] /\ smsg'[d] = smsg[d]
    BY CallSendEffect
  <1>2. ASSUME NEW k \in Messages, Numbered(k)
        PROVE  k.kind = "Block" => k.seq < next'[k.stream]
    <2> SUFFICES ASSUME k.kind = "Block" PROVE k.seq < next'[k.stream]
      OBVIOUS
    <2>1. k.stream \in Streams /\ k.seq \in Nat /\ k.seq < next[k.stream]
          /\ next[k.stream] \in Nat
      BY <1>2, MessageKinds, ConstantsAssumption DEF Numbered, StreamsOK
    <2> QED BY <2>1
  <1>3. AcceptedInv'
    BY <1>2 DEF AcceptedInv, Numbered
  <1>4. SendingInv'
    <2> SUFFICES ASSUME NEW d \in Callers, spc'[d] # "idle"
                 PROVE  /\ smsg'[d] \in Messages
                        /\ smsg'[d].kind = "Block" => smsg'[d].seq < next'[smsg'[d].stream]
                        /\ \A a \in DOMAIN accepted : Before(accepted[a], smsg'[d])
                        /\ smsg'[d].kind = "Block" =>
                              \A e \in Callers \ {d} :
                                 spc'[e] # "idle" => smsg'[e].stream # smsg'[d].stream
      BY DEF SendingInv, Numbered, Before
    <2>1. CASE d = c
      BY <1>1, <2>1
    <2>2. CASE d # c
      <3>1. spc[d] # "idle" /\ smsg'[d] = smsg[d]
        BY <1>1, <2>2
      <3>2. smsg'[d].kind = "Block" => smsg'[d].seq < next'[smsg'[d].stream]
        BY <1>2, <3>1 DEF SendingInv
      <3>3. smsg'[d].kind = "Block" =>
              \A e \in Callers \ {d} : spc'[e] # "idle" => smsg'[e].stream # smsg'[d].stream
        BY <1>1, <2>2, <3>1 DEF SendingInv
      <3> QED BY <3>1, <3>2, <3>3 DEF SendingInv
    <2> QED BY <2>1, <2>2
  <1>5. BootInv'
    BY <1>1 DEF BootInv, ShutdownInv
  <1> QED BY <1>3, <1>4, <1>5

LEMMA NextOrderInv == ASSUME IndInv, OrderInv, [Next]_vars PROVE OrderInv'
  <1> USE ConstantsAssumption, NoneNotCaller
      DEF channel, calls, streams, worker, shutdown, history
  <1>0. /\ CallsOK /\ StreamsOK /\ accepted \in Seq(SinkEvent) /\ SendInv /\ ShutdownInv
        /\ OpenInv /\ BootInv /\ AcceptedInv /\ SendingInv
    BY OrderTypes
  <1> DEFINE Goal == (BootInv /\ AcceptedInv /\ SendingInv)'
  <1>1. ASSUME NEW c \in Callers, SendLock(c) PROVE Goal
    <2>1. CASE sender
      <3>1. spc'[c] = "push" /\ spc[c] = "lock" /\ smsg' = smsg
            /\ \A d \in Callers \ {c} : spc'[d] = spc[d]
        BY <1>0, <1>1, <2>1 DEF SendLock, CallsOK
      <3> QED BY <1>1, <3>1, CallsEnd DEF SendLock
    <2>2. CASE ~sender
      <3>1. dispatch # "none"
        BY <1>0, <2>2 DEF OpenInv
      <3>2. Return(c) /\ spc[c] = "lock" /\ UNCHANGED <<streams, accepted, receiver>>
        BY <1>1, <2>2 DEF SendLock
      <3> QED BY <1>0, <3>1, <3>2, ReturnEffect, CallsEnd
    <2> QED BY <2>1, <2>2
  <1>2. ASSUME NEW c \in Callers, SendPush(c) PROVE Goal
    <2>1. CASE receiver
      <3> DEFINE m == smsg[c]
                 n == Len(accepted) + 1
      <3>1. /\ accepted' = Append(accepted, m) /\ Return(c) /\ spc[c] = "push"
            /\ UNCHANGED <<streams, receiver>>
        BY <1>2, <2>1 DEF SendPush
      <3>2. /\ spc'[c] = "idle"
            /\ \A d \in Callers \ {c} : spc'[d] = spc[d] /\ smsg'[d] = smsg[d]
        BY <1>0, <3>1, ReturnEffect
      <3>3. m \in Messages /\ m \in SinkEvent /\ Numbered(m)
            /\ \A a \in DOMAIN accepted : Before(accepted[a], m)
        BY <1>0, <3>1, MessageKinds DEF SendingInv
      <3>4. /\ DOMAIN accepted' = DOMAIN accepted \cup {n}
            /\ \A a \in DOMAIN accepted : a < n /\ accepted'[a] = accepted[a]
            /\ accepted'[n] = m
            /\ accepted' # <<>>
            /\ accepted # <<>> => accepted'[1] = accepted[1]
            /\ accepted = <<>> => n = 1
        BY <1>0, <3>1, <3>3, AcceptedAppend
      <3>5. accepted = <<>> <=> m = Startup
        BY <2>1, <3>1, FirstIsStartup
      <3> HIDE DEF m, n
      <3>6. AcceptedInv'
        <4>1. accepted' # <<>> => accepted'[1] = Startup
          BY <1>0, <3>4, <3>5 DEF AcceptedInv
        <4>2. ASSUME NEW b \in DOMAIN accepted'
              PROVE  /\ accepted'[b] \in Messages
                     /\ accepted'[b] = Startup => b = 1
                     /\ Numbered(accepted'[b])
          <5>1. CASE b \in DOMAIN accepted
            BY <1>0, <3>1, <3>4, <5>1 DEF AcceptedInv, Numbered
          <5>2. CASE b = n
            BY <3>1, <3>3, <3>4, <3>5, <5>2 DEF Numbered
          <5> QED BY <3>4, <5>1, <5>2
        <4>3. ASSUME NEW a \in DOMAIN accepted', NEW b \in DOMAIN accepted', a < b
              PROVE  Before(accepted'[a], accepted'[b])
          <5>1. a \in Nat /\ b \in Nat /\ n \in Nat /\ DOMAIN accepted = 1 .. n - 1
            BY <1>0, <3>1, <3>3 DEF n
          <5>2. a \in DOMAIN accepted
            BY <3>4, <4>3, <5>1
          <5>3. CASE b \in DOMAIN accepted
            BY <1>0, <3>4, <4>3, <5>2, <5>3 DEF AcceptedInv
          <5>4. CASE b = n
            BY <3>3, <3>4, <5>2, <5>4
          <5> QED BY <3>4, <5>3, <5>4
        <4> QED BY <3>1, <4>1, <4>2, <4>3 DEF AcceptedInv, Before, Numbered
      <3>7. SendingInv'
        <4> SUFFICES ASSUME NEW d \in Callers, spc'[d] # "idle"
                     PROVE  /\ smsg'[d] \in Messages
                            /\ Numbered(smsg[d])
                            /\ \A a \in DOMAIN accepted' : Before(accepted'[a], smsg'[d])
                            /\ smsg'[d].kind = "Block" =>
                                  \A e \in Callers \ {d} :
                                     spc'[e] # "idle" => smsg'[e].stream # smsg'[d].stream
          BY <3>1, <3>2 DEF SendingInv, Numbered, Before
        <4>1. d # c /\ spc[d] # "idle" /\ smsg'[d] = smsg[d]
          BY <3>2
        <4>2. Before(m, smsg[d])
          BY <1>0, <3>1, <4>1 DEF SendingInv, Before, m
        <4>3. \A a \in DOMAIN accepted' : Before(accepted'[a], smsg'[d])
          BY <1>0, <3>4, <4>1, <4>2 DEF SendingInv
        <4> QED BY <1>0, <3>2, <4>1, <4>3 DEF SendingInv
      <3>8. BootInv'
        <4>1. booted \in 0 .. 3
          BY <1>0 DEF StreamsOK
        <4>2. ~(booted = 0 \/ (booted = 1 /\ spc'[Main] # "idle"))
          <5>1. booted # 0
            BY <1>0, <3>1 DEF BootInv, ShutdownInv
          <5>2. booted = 1 => c = Main
            BY <1>0, <3>1 DEF BootInv, ShutdownInv
          <5> QED BY <3>2, <5>1, <5>2
        <4> QED BY <1>0, <2>1, <3>1, <3>2, <3>4, <4>2 DEF BootInv
      <3> QED BY <3>6, <3>7, <3>8
    <2>2. CASE ~receiver
      <3>1. spc'[c] = "error" /\ spc[c] = "push" /\ smsg' = smsg
            /\ \A d \in Callers \ {c} : spc'[d] = spc[d]
        BY <1>0, <1>2, <2>2 DEF SendPush, CallsOK
      <3> QED BY <1>2, <2>2, <3>1, CallsEnd DEF SendPush
    <2> QED BY <2>1, <2>2
  <1>3. ASSUME NEW c \in Callers, SendError(c) PROVE Goal
    <2>1. spc[c] = "error" /\ ~receiver /\ UNCHANGED <<streams, accepted, receiver>>
      BY <1>0, <1>3 DEF SendError, BootInv
    <2>2. CASE Return(c)
      BY <1>0, <2>1, <2>2, ReturnEffect, CallsEnd
    <2>3. CASE ~Return(c)
      <3>1. spc' = [spc EXCEPT ![c] = "stuck"] /\ smsg' = smsg
        BY <1>3, <2>3 DEF SendError
      <3>2. spc'[c] = "stuck" /\ \A d \in Callers \ {c} : spc'[d] = spc[d]
        BY <1>0, <3>1 DEF CallsOK
      <3> QED BY <2>1, <3>1, <3>2, CallsEnd
    <2> QED BY <2>2, <2>3
  <1>4. ASSUME DispatchNew PROVE Goal
    <2> DEFINE m == BootMessage[booted + 1]
    <2>1. /\ booted < 3 /\ booted' = booted + 1 /\ CallSend(Main, m)
          /\ UNCHANGED <<accepted, receiver, dispatch>>
      BY <1>4 DEF DispatchNew
    <2>2. /\ dispatch = "none" /\ booted \in 0 .. 2 /\ m \in Messages /\ m.kind # "Block"
      BY <1>0, <2>1, BootMessages DEF ShutdownInv, StreamsOK
    <2>3. /\ spc[Main] = "idle" /\ spc'[Main] = "lock" /\ smsg'[Main] = m
          /\ \A d \in Callers \ {Main} : spc[d] = "idle" /\ spc'[d] = "idle"
      BY <1>0, <2>1, <2>2, CallSendEffect DEF BootInv
    <2>4. /\ \A s \in Streams : next'[s] >= next[s] /\ next[s] \in Nat /\ next'[s] \in Nat
          /\ next'[Log] = IF booted = 1 THEN 1 ELSE next[Log]
          /\ next'[Metrics] = IF booted = 2 THEN 1 ELSE next[Metrics]
      BY <1>0, <1>4 DEF DispatchNew, StreamsOK, BootInv, Streams
    <2>5. \A a \in DOMAIN accepted : Before(accepted[a], m)
      <3> SUFFICES ASSUME NEW a \in DOMAIN accepted, accepted[a].kind = "Block",
                          m.stream = accepted[a].stream
                   PROVE  FALSE
        BY DEF Before
      <3>1. accepted[a].stream \in Streams /\ accepted[a].seq \in Nat
            /\ accepted[a].seq < next[accepted[a].stream]
        BY <1>0, MessageKinds DEF AcceptedInv, Numbered
      <3>2. booted = 0 => FALSE
        BY <3>1, BootMessages
      <3>3. booted = 1 => m.stream = Log /\ next[Log] = 0
        BY <1>0, BootMessages DEF BootInv, Streams
      <3>4. booted = 2 => m.stream = Metrics /\ next[Metrics] = 0
        BY <1>0, BootMessages DEF BootInv, Streams
      <3> QED BY <2>2, <3>1, <3>2, <3>3, <3>4
    <2> HIDE DEF m
    <2>6. AcceptedInv'
      <3>1. \A b \in DOMAIN accepted : Numbered(accepted[b])'
        <4> SUFFICES ASSUME NEW b \in DOMAIN accepted, accepted[b].kind = "Block"
                     PROVE  accepted[b].seq < next'[accepted[b].stream]
          BY <2>1 DEF Numbered
        <4>1. accepted[b].stream \in Streams /\ accepted[b].seq \in Nat
              /\ accepted[b].seq < next[accepted[b].stream]
          BY <1>0, MessageKinds DEF AcceptedInv, Numbered
        <4> QED BY <2>4, <4>1
      <3> QED BY <1>0, <2>1, <3>1 DEF AcceptedInv, Numbered
    <2>7. SendingInv'
      BY <2>1, <2>2, <2>3, <2>5 DEF SendingInv, Numbered
    <2>8. BootInv'
      <3>1. booted' \in 1 .. 3 /\ m = BootMessage[booted']
        BY <2>1, <2>2 DEF m
      <3>2. booted' = 1 => accepted = <<>>
        BY <1>0, <2>1, <2>2 DEF BootInv
      <3>3. booted' > 1 => accepted # <<>> \/ ~receiver
        BY <1>0, <2>1, <2>2, <2>3 DEF BootInv
      <3>4. (booted' < 2 => next'[Log] = 0) /\ (booted' < 3 => next'[Metrics] = 0)
        BY <1>0, <2>1, <2>2, <2>4 DEF BootInv
      <3> QED BY <2>1, <2>2, <2>3, <3>1, <3>2, <3>3, <3>4 DEF BootInv
    <2> QED BY <2>6, <2>7, <2>8
  <1>5. ASSUME InitEventDispatch PROVE Goal
    <2>1. /\ booted = 3 /\ spc[Main] = "idle" /\ dispatch = "none" /\ dispatch' = "http"
          /\ UNCHANGED <<calls, booted, next, accepted, receiver>>
      BY <1>5 DEF InitEventDispatch, Announced
    <2>2. \A c \in Callers : spc[c] = "idle"
      BY <1>0, <2>1 DEF BootInv
    <2> QED BY <1>0, <2>1, <2>2 DEF BootInv, AcceptedInv, SendingInv, Numbered
  <1>6. ASSUME NEW t \in Threads, InitThreadStream(t) PROVE Goal
    <2> DEFINE m == InitStream(t)
    <2>1. /\ dispatch = "http" /\ t \in Traced /\ next[t] = 0 /\ CallSend(t, m)
          /\ next' = [next EXCEPT ![t] = 1]
          /\ UNCHANGED <<booted, dispatch, accepted, receiver>>
      BY <1>6 DEF InitThreadStream, AppRunning
    <2>2. t \in Callers /\ t \in Streams /\ m \in Messages /\ m.kind = "InitStream"
          /\ m.stream = t
      BY <2>1, BootMessages DEF Callers, Streams
    <2>3. \A s \in Streams : next'[s] \in Nat /\ next'[s] >= next[s]
      BY <1>0, <2>1, <2>2 DEF StreamsOK
    <2>4. ASSUME NEW k \in Messages, Numbered(k), k.kind = "Block"
          PROVE  k.stream # t
      <3>1. k.seq \in Nat /\ k.seq < next[k.stream]
        BY <2>4, MessageKinds DEF Numbered
      <3> QED BY <2>1, <3>1
    <2>5. \A a \in DOMAIN accepted : Before(accepted[a], m)
      BY <1>0, <2>2, <2>4 DEF AcceptedInv, Before
    <2>6. \A d \in Callers \ {t} : spc[d] # "idle" /\ "Block" \in {m.kind, smsg[d].kind}
                                      => smsg[d].stream # m.stream
      BY <1>0, <2>2, <2>4 DEF SendingInv
    <2> HIDE DEF m
    <2>7. m = InitStream(t)
      BY DEF m
    <2> QED BY <2>1, <2>2, <2>3, <2>5, <2>6, <2>7, CallBegins
  <1>7. ASSUME NEW c \in Callers, NEW s \in Streams, Flushes(c, s),
               UNCHANGED <<receiver, accepted>>
        PROVE  Goal
    <2> DEFINE m == Block(s, next[s])
    <2>1. /\ dispatch = "http"
          /\ s \in {Log, Metrics} \/ s = c
          /\ next[s] \in 1 .. MaxBlocks[s] /\ StreamFree(c, s) /\ CallSend(c, m)
          /\ next' = [next EXCEPT ![s] = @ + 1] /\ UNCHANGED <<booted, dispatch>>
      BY <1>7 DEF Flushes, CallFlush
    <2>2. m \in Messages /\ m.kind = "Block" /\ m.stream = s /\ m.seq = next[s]
      BY <2>1 DEF Messages, Block
    <2>3. /\ \A r \in Streams : next'[r] \in Nat /\ next'[r] >= next[r]
          /\ next[s] \in Nat /\ next'[s] = next[s] + 1
      BY <1>0, <2>1 DEF StreamsOK
    <2>4. \A a \in DOMAIN accepted : Before(accepted[a], m)
      BY <1>0, <2>2 DEF AcceptedInv, Numbered, Before
    <2>5. ASSUME NEW d \in Callers \ {c}, spc[d] # "idle"
          PROVE  smsg[d].stream # s
      <3>1. CASE smsg[d].kind = "Block"
        BY <2>1, <2>5, <3>1 DEF StreamFree, Flushing
      <3>2. CASE smsg[d].kind # "Block"
        <4>1. smsg[d] = InitStream(d) /\ d \in Traced
          BY <1>0, <2>1, <2>5, <3>2 DEF BootInv
        <4>2. smsg[d].stream = d
          BY <4>1 DEF InitStream
        <4> QED BY <2>1, <4>1, <4>2
      <3> QED BY <3>1, <3>2
    <2> HIDE DEF m
    <2> QED BY <1>7, <2>1, <2>2, <2>3, <2>4, <2>5, CallBegins
  <1>8. ASSUME StoreNullSink PROVE Goal
    <2>1. /\ dispatch # "none" /\ dispatch' # "none"
          /\ UNCHANGED <<calls, booted, next, accepted, receiver>>
      BY <1>0, <1>8 DEF StoreNullSink, ShutdownInv
    <2> QED BY <1>0, <2>1 DEF BootInv, AcceptedInv, SendingInv, Numbered
  <1>9. ASSUME UNCHANGED <<calls, streams, accepted>>, receiver' => receiver PROVE Goal
    BY <1>0, <1>9 DEF BootInv, AcceptedInv, SendingInv, Numbered
  <1>10. Goal
    BY <1>1, <1>2, <1>3, <1>4, <1>5, <1>6, <1>7, <1>8, <1>9, WhoCalls
  <1> QED BY <1>0, <1>10, NextOpenInv DEF OrderInv

-----------------------------------------------------------------------------
(***************************************************************************)
(* Requests follow the order of the accepted messages.                     *)
(***************************************************************************)

LEMMA NextPostedInv ==
    ASSUME IndInv, FifoInv, LoopInv, OrderInv, PostedInv, [Next]_vars PROVE PostedInv'
  <1> USE ConstantsAssumption DEF channel, calls, streams, worker, shutdown, history
  <1>0. /\ accepted \in Seq(SinkEvent) /\ posted \in Seq(SinkEvent) /\ handled \in Nat
        /\ Taken \in Nat /\ SinkThreadInv /\ None \notin SinkEvent /\ AcceptedInv
        /\ fate \in [Fates -> SUBSET SinkEvent]
    BY InHandCases DEF IndInv, TypeOK, HistoryOK, OrderInv, Taken
  (* Nothing is posted, and no message in hand begins to be handled. *)
  <1> DEFINE Silent ==
               /\ UNCHANGED <<posted, fate>>
               /\ Taken' \in Nat /\ Taken' >= Taken
               /\ \A b \in 1 .. Taken : accepted'[b] = accepted[b]
               /\ wpc' = "handle" /\ current'.kind = "Block" =>
                     \/ wpc = "handle" /\ current.kind = "Block" /\ handled' = handled
                     \/ Taken = handled'
  <1>1. ASSUME Silent PROVE PostedInv'
    <2>1. ASSUME NEW j \in DOMAIN posted
          PROVE  \E b \in 1 .. Taken' :
                    /\ accepted'[b] = posted'[j]
                    /\ wpc' = "handle" /\ current'.kind = "Block" => b <= handled'
      <3>1. PICK b \in 1 .. Taken :
                    /\ accepted[b] = posted[j]
                    /\ wpc = "handle" /\ current.kind = "Block" => b <= handled
        BY DEF PostedInv
      <3> QED BY <1>0, <1>1, <3>1
    <2>2. ASSUME NEW i \in DOMAIN posted, NEW j \in DOMAIN posted, i < j
          PROVE  \E a, b \in 1 .. Taken' :
                    /\ a <= b
                    /\ accepted'[a] = posted'[i] /\ accepted'[b] = posted'[j]
                    /\ posted'[j].kind = "Block" => a < b
      <3>1. PICK a \in 1 .. Taken, b \in 1 .. Taken :
                    /\ a <= b
                    /\ accepted[a] = posted[i] /\ accepted[b] = posted[j]
                    /\ posted[j].kind = "Block" => a < b
        BY <2>2 DEF PostedInv
      <3>2. a \in 1 .. Taken' /\ b \in 1 .. Taken'
        BY <1>0, <1>1
      <3> QED BY <1>1, <3>1, <3>2
    <2> QED BY <1>1, <2>1, <2>2 DEF PostedInv
  (* The message in hand is posted. *)
  <1> DEFINE Posts ==
               /\ wpc = "handle"
               /\ posted' = Append(posted, current)
               /\ UNCHANGED <<accepted, handled, current, fate>>
               /\ current.kind = "Block" => wpc' # "handle"
  <1>2. ASSUME Posts PROVE PostedInv'
    <2> DEFINE n == Len(posted) + 1
    <2>1. /\ current \in SinkEvent /\ current # None /\ Taken = handled + 1 /\ Taken' = Taken
          /\ accepted[handled + 1] = current
      BY <1>0, <1>2, InHandCases DEF SinkThreadInv, Taken, FifoInv
    <2>2. /\ DOMAIN posted' = DOMAIN posted \cup {n} /\ DOMAIN posted = 1 .. n - 1 /\ n \in Nat
          /\ posted'[n] = current
          /\ \A i \in DOMAIN posted : posted'[i] = posted[i]
      BY <1>0, <1>2, <2>1
    <2> HIDE DEF n
    <2>3. ASSUME NEW j \in DOMAIN posted
          PROVE  \E b \in 1 .. Taken : /\ accepted[b] = posted[j]
                                       /\ current.kind = "Block" => b <= handled
      BY <1>2 DEF PostedInv
    <2>4. ASSUME NEW j \in DOMAIN posted'
          PROVE  \E b \in 1 .. Taken' :
                    /\ accepted'[b] = posted'[j]
                    /\ wpc' = "handle" /\ current'.kind = "Block" => b <= handled'
      <3>1. CASE j \in DOMAIN posted
        BY <1>2, <2>1, <2>2, <2>3, <3>1
      <3>2. CASE j = n
        <4>1. handled + 1 \in 1 .. Taken'
          BY <1>0, <2>1
        <4> QED BY <1>2, <2>1, <2>2, <3>2, <4>1
      <3> QED BY <2>2, <3>1, <3>2
    <2>5. ASSUME NEW i \in DOMAIN posted', NEW j \in DOMAIN posted', i < j
          PROVE  \E a, b \in 1 .. Taken' :
                    /\ a <= b
                    /\ accepted'[a] = posted'[i] /\ accepted'[b] = posted'[j]
                    /\ posted'[j].kind = "Block" => a < b
      <3>1. i \in DOMAIN posted
        BY <2>2, <2>5
      <3>2. CASE j \in DOMAIN posted
        BY <1>2, <2>1, <2>2, <2>5, <3>1, <3>2 DEF PostedInv
      <3>3. CASE j = n
        <4>1. PICK a \in 1 .. Taken : /\ accepted[a] = posted[i]
                                      /\ current.kind = "Block" => a <= handled
          BY <2>3, <3>1
        <4>2. handled + 1 \in 1 .. Taken' /\ a \in 1 .. Taken' /\ a <= handled + 1
          BY <1>0, <2>1, <4>1
        <4>3. current.kind = "Block" => a < handled + 1
          BY <1>0, <4>1
        <4> QED BY <1>2, <2>1, <2>2, <3>1, <3>3, <4>1, <4>2, <4>3
      <3> QED BY <2>2, <3>2, <3>3
    <2> QED BY <1>2, <2>4, <2>5 DEF PostedInv
  <1> HIDE DEF Silent, Posts
  <1>3. ASSUME NEW c \in Callers, SendPush(c) PROVE PostedInv'
    <2>1. UNCHANGED <<posted, fate, handled, current, wpc>> /\ Taken' = Taken
      BY <1>3, InHandCases DEF SendPush, Taken
    <2>2. \A b \in 1 .. Taken : accepted'[b] = accepted[b]
      <3>1. Taken <= Len(accepted)
        BY DEF FifoInv
      <3>2. smsg[c] \in SinkEvent /\ (accepted' = accepted \/ accepted' = Append(accepted, smsg[c]))
        BY <1>3 DEF SendPush, IndInv, SendInv
      <3> QED BY <1>0, <3>1, <3>2
    <2>3. wpc' = "handle" /\ current'.kind = "Block" =>
            wpc = "handle" /\ current.kind = "Block" /\ handled' = handled
      BY <2>1
    <2> QED BY <1>0, <1>1, <2>1, <2>2, <2>3 DEF Silent
  <1>4. ASSUME Recv PROVE PostedInv'
    <2>1. UNCHANGED <<posted, fate, handled, accepted>> /\ current = None /\ Taken = handled
          /\ Taken' \in Nat /\ Taken' >= Taken
      BY <1>0, <1>4, InHandCases DEF Recv, SinkThreadInv, Taken
    <2> QED BY <1>1, <2>1 DEF Silent
  <1>5. ASSUME FetchSub PROVE PostedInv'
    <2>1. UNCHANGED <<posted, fate, accepted>> /\ wpc' = "recv" /\ Taken' = Taken
      BY <1>0, <1>5, InHandCases DEF FetchSub, Taken
    <2> QED BY <1>0, <1>1, <2>1 DEF Silent
  <1>6. ASSUME ThreadStart \/ RecvDisconnected \/ SelfJoin \/ Elsewhere PROVE PostedInv'
    <2>1. UNCHANGED <<posted, fate, accepted, handled, current>>
          /\ (wpc' = "handle" => wpc = "handle") /\ Taken' = Taken
      BY <1>6, InHandCases
      DEF ThreadStart, RecvDisconnected, SelfJoin, Elsewhere, ServiceUnchanged, Taken
    <2> QED BY <1>0, <1>1, <2>1 DEF Silent
  <1>7. ASSUME PushMetadata PROVE PostedInv'
    <2>1. /\ wpc = "handle" /\ UNCHANGED <<accepted, handled, current>> /\ Taken' = Taken
          /\ current.kind # "Block"
      BY <1>7, InHandCases DEF PushMetadata, Taken
    <2>2. CASE Execute
      BY <1>2, <2>1, <2>2 DEF Posts, Execute
    <2>3. CASE NotSent
      BY <1>0, <1>1, <2>1, <2>3 DEF Silent, NotSent
    <2> QED BY <1>7, <2>2, <2>3 DEF PushMetadata
  <1>8. ASSUME PushBlock PROVE PostedInv'
    <2>1. /\ wpc = "handle" /\ wpc' = "sub" /\ Taken' = Taken /\ current.kind = "Block"
          /\ UNCHANGED <<accepted, handled, current>>
      BY <1>8, InHandCases DEF PushBlock, Discard, Taken
    <2>2. opt_process_info
      <3>1. current # None
        BY <1>0, <2>1 DEF SinkThreadInv
      <3>2. current # Startup
        BY <2>1 DEF Startup
      <3>3. handled > 0
        BY <1>0, <3>1, <3>2, InHandIsAccepted
      <3> QED BY <3>3 DEF LoopInv
    <2>3. CASE Execute
      BY <1>2, <2>1, <2>3 DEF Posts, Execute
    <2>4. CASE NotSent
      BY <1>0, <1>1, <2>1, <2>4 DEF Silent, NotSent
    <2>5. CASE Discard("dropped")
      <3>1. posted' = posted /\ fate'["rejected"] = fate["rejected"]
        BY <1>0, <2>5 DEF Discard, Fates
      <3> QED BY <1>0, <2>1, <3>1 DEF PostedInv
    <2> QED BY <1>8, <2>2, <2>3, <2>4, <2>5 DEF PushBlock
  <1> QED BY <1>3, <1>4, <1>5, <1>6, <1>7, <1>8, WhoServes

-----------------------------------------------------------------------------

LEMMA InitServiceInv == Init => ServiceInv
  <1> SUFFICES ASSUME Init PROVE ServiceInv
    OBVIOUS
  <1> USE ConstantsAssumption, NoneNotCaller DEF Init
  <1>1. FifoInv /\ Taken = 0
    BY DEF FifoInv, Taken, InHand
  <1>2. LoopInv
    BY MessageTypes DEF LoopInv
  <1>3. OpenInv /\ BootInv /\ AcceptedInv /\ SendingInv
    BY DEF OpenInv, BootInv, AcceptedInv, SendingInv, Streams
  <1>4. PostedInv
    BY <1>1 DEF PostedInv, Fates
  <1> QED BY <1>1, <1>2, <1>3, <1>4 DEF ServiceInv, OrderInv

LEMMA ServiceInductive == Spec => [](IndInv /\ ServiceInv)
  <1>1. Init => IndInv /\ ServiceInv
    BY InitIndInv, InitServiceInv
  <1>2. IndInv /\ ServiceInv /\ [Next]_vars => (IndInv /\ ServiceInv)'
    BY NextIndInv, NextFifoInv, NextLoopInv, NextOrderInv, NextPostedInv
    DEF ServiceInv, OrderInv
  <1> QED BY <1>1, <1>2, PTL DEF Spec

(***************************************************************************)
(* For any number of threads that race to send, the blocks of a stream are *)
(* posted in the order they were cut and none twice: the stream's mutex is *)
(* held across the call of the sink, and push_block does not retry.        *)
(***************************************************************************)
THEOREM StreamOrderHolds == Spec => []StreamOrder
  <1>1. ASSUME IndInv, ServiceInv PROVE StreamOrder
    <2> SUFFICES ASSUME NEW i \in DOMAIN posted, NEW j \in DOMAIN posted, i < j,
                        posted[i].kind = "Block", posted[j].kind = "Block",
                        posted[i].stream = posted[j].stream
                 PROVE  posted[i].seq < posted[j].seq
      BY DEF StreamOrder
    <2>1. PICK a \in 1 .. Taken, b \in 1 .. Taken :
             a < b /\ accepted[a] = posted[i] /\ accepted[b] = posted[j]
      BY <1>1 DEF ServiceInv, PostedInv
    <2>2. a \in DOMAIN accepted /\ b \in DOMAIN accepted
      BY <1>1, <2>1, InHandCases
      DEF ServiceInv, FifoInv, Taken, IndInv, TypeOK, HistoryOK
    <2> QED BY <1>1, <2>1, <2>2 DEF ServiceInv, OrderInv, AcceptedInv, Before
  <1> QED BY <1>1, ServiceInductive, PTL

(***************************************************************************)
(* For any number of threads, the process is posted before everything, a   *)
(* stream before its blocks, and no block is rejected for want of Startup: *)
(* Dispatch::new has sent its messages before G_DISPATCH is set, and       *)
(* init_thread_stream sends its own before the thread can flush.           *)
(***************************************************************************)
THEOREM MetadataFirstHolds == Spec => []MetadataFirst
  <1>1. ASSUME IndInv, ServiceInv PROVE MetadataFirst
    <2>1. fate["rejected"] = {}
      BY <1>1 DEF ServiceInv, PostedInv
    <2>2. ASSUME NEW j \in DOMAIN posted, NEW i \in 1 .. j - 1
          PROVE  /\ posted[j] = Startup => posted[i] = Startup
                 /\ posted[j].kind = "InitStream" =>
                       ~(posted[i].kind = "Block" /\ posted[i].stream = posted[j].stream)
      <3>1. posted \in Seq(SinkEvent) /\ accepted \in Seq(SinkEvent) /\ handled \in Nat
        BY <1>1 DEF IndInv, TypeOK, HistoryOK
      <3>2. i \in DOMAIN posted /\ i < j
        BY <2>2, <3>1
      <3>3. PICK a \in 1 .. Taken, b \in 1 .. Taken :
               a <= b /\ accepted[a] = posted[i] /\ accepted[b] = posted[j]
        BY <1>1, <3>2 DEF ServiceInv, PostedInv
      <3>4. a \in DOMAIN accepted /\ b \in DOMAIN accepted
        BY <1>1, <3>1, <3>3, InHandCases DEF ServiceInv, FifoInv, Taken
      <3>5. posted[j] = Startup => posted[i] = Startup
        <4>1. posted[j] = Startup => b = 1
          BY <1>1, <3>3, <3>4 DEF ServiceInv, OrderInv, AcceptedInv
        <4>2. b = 1 => a = b
          BY <3>1, <3>3, <3>4
        <4> QED BY <3>3, <4>1, <4>2
      <3>6. a # b => Before(accepted[a], accepted[b])
        BY <1>1, <3>1, <3>3, <3>4 DEF ServiceInv, OrderInv, AcceptedInv
      <3> QED BY <3>3, <3>5, <3>6 DEF Before
    <2> QED BY <2>1, <2>2 DEF MetadataFirst
  <1> QED BY <1>1, ServiceInductive, PTL

(***************************************************************************)
(* Drop on the application's thread returns from join only when all that   *)
(* the sink accepted has been handled, for any number of threads, blocks   *)
(* and timeouts: the loop ends on an empty channel whose sender is closed. *)
(***************************************************************************)
THEOREM JoinDrainsHolds == Spec => JoinDrains
  <1>1. ASSUME IndInv, ServiceInv, [Next]_vars, dpc = "join", dpc' = "store",
               opt_process_info
        PROVE  handled = Len(accepted)
    <2> USE DEF channel, calls, streams, worker, shutdown, history
    <2>1. AppStep => dpc' # "store" \/ dpc' = dpc
      BY DEF AppStep, DispatchNew, InitEventDispatch, InitThreadStream, FlushStream,
             ShutdownTelemetry
    <2>2. (\E c \in Callers : Send(c)) => dpc' = dpc
      BY DEF Send, SendLock, SendPush, SendError
    <2>3. SinkStep \/ RecvTimeout \/ LogFromSinkThread => dpc' = dpc
      BY DEF SinkStep, ThreadStart, Recv, RecvDisconnected, PushMetadata, PushBlock,
             FetchSub, TickGetSink, TickIsBusy, TickFlush, SelfJoin, RecvTimeout,
             LogFromSinkThread
    <2>4. DropJoin
      BY <1>1, <2>1, <2>2, <2>3
      DEF Next, vars, ShutdownStep, ShutdownFlush, ReleaseSink, DropLock, StoreNullSink
    <2> QED BY <1>1, <2>4 DEF DropJoin, ServiceInv, LoopInv
  <1>2. IndInv /\ ServiceInv /\ [Next]_vars
          => [dpc = "join" /\ dpc' = "store" /\ opt_process_info
                => handled = Len(accepted)]_vars
    BY <1>1
  <1> QED BY <1>2, ServiceInductive, PTL DEF Spec, JoinDrains

-----------------------------------------------------------------------------
(***************************************************************************)
(* The sink implements SinkContract.                                       *)
(***************************************************************************)

(* The refinement mapping, by name. *)
Pending == IF wpc = "handle" THEN Waiting ELSE queue
Tries   == IF wpc = "handle" THEN attempts ELSE 0
Request == IF posted = <<>> THEN None ELSE posted[Len(posted)]

(* An element in front of a sequence. *)
LEMMA InFront ==
    ASSUME NEW S, NEW e \in S, NEW q \in Seq(S)
    PROVE  /\ <<e>> \o q # <<>> /\ Head(<<e>> \o q) = e /\ Tail(<<e>> \o q) = q
           /\ \A x \in S : Append(<<e>> \o q, x) = <<e>> \o Append(q, x)
           /\ q # <<>> => <<Head(q)>> \o Tail(q) = q
  <1>1. <<e>> \in Seq(S) /\ <<e>> \o q \in Seq(S) /\ Len(<<e>> \o q) = 1 + Len(q)
    OBVIOUS
  <1>2. <<e>> \o q # <<>> /\ Head(<<e>> \o q) = e
    BY <1>1
  <1>3. Tail(<<e>> \o q) = q
    BY <1>1
  <1>4. \A x \in S : Append(<<e>> \o q, x) = <<e>> \o Append(q, x)
    BY <1>1
  <1>5. q # <<>> => <<Head(q)>> \o Tail(q) = q
    OBVIOUS
  <1> QED BY <1>2, <1>3, <1>4, <1>5

(* What an action that is none of the contract's leaves alone. *)
LEMMA ContractStutters ==
    UNCHANGED <<receiver, Pending, Tries, Request>> => UNCHANGED Contract!contract
  BY DEF Contract!contract, Pending, Tries, Request

LEMMA ContractInit == Init => Contract!Init
  BY DEF Init, Contract!Init, Pending, Tries, Request

LEMMA ContractNext ==
    ASSUME IndInv, ServiceInv, [Next]_vars PROVE [Contract!Next]_(Contract!contract)
  <1> USE ConstantsAssumption DEF channel, calls, streams, worker, shutdown, history
  <1>0. /\ queue \in Seq(SinkEvent) /\ posted \in Seq(SinkEvent) /\ SinkThreadInv
        /\ None \notin SinkEvent /\ attempts \in 0 .. MaxRetries
        /\ FifoInv /\ LoopInv /\ AcceptedInv /\ SendingInv
    BY DEF IndInv, TypeOK, ChannelOK, WorkerOK, HistoryOK, ServiceInv, OrderInv
  <1>1. wpc = "handle" => /\ current \in SinkEvent /\ current \in Messages
                          /\ Pending = <<current>> \o queue /\ Tries = attempts
    BY <1>0, InHandIsAccepted DEF SinkThreadInv, Pending, Waiting, Tries
  <1>2. wpc # "handle" => Pending = queue /\ Tries = 0
    BY DEF Pending, Tries
  <1>3. posted' = posted => Request' = Request
    BY DEF Request
  <1>4. ASSUME NEW c \in Callers, SendPush(c), receiver PROVE Contract!Accept
    <2>1. /\ smsg[c] \in Messages /\ smsg[c] \in SinkEvent /\ queue' = Append(queue, smsg[c])
          /\ UNCHANGED <<receiver, wpc, current, attempts, posted>>
      BY <1>0, <1>4, MessageKinds DEF SendPush, Enqueue, SendingInv
    <2>2. Pending' = Append(Pending, smsg[c])
      <3>1. CASE wpc = "handle"
        <4>1. Pending' = <<current>> \o Append(queue, smsg[c])
          BY <1>0, <1>1, <2>1, <3>1 DEF Pending, Waiting
        <4>2. <<current>> \o Append(queue, smsg[c]) = Append(<<current>> \o queue, smsg[c])
          BY <1>0, <1>1, <2>1, <3>1, InFront
        <4> QED BY <1>1, <3>1, <4>1, <4>2
      <3>2. CASE wpc # "handle"
        BY <1>2, <2>1, <3>2 DEF Pending
      <3> QED BY <3>1, <3>2
    <2>3. Tries' = Tries /\ Request' = Request
      BY <2>1 DEF Tries, Request
    <2> QED BY <1>4, <2>1, <2>2, <2>3 DEF Contract!Accept, Pending, Tries, Request
  <1>5. ASSUME NEW c \in Callers, SendPush(c), ~receiver
        PROVE  UNCHANGED Contract!contract
    BY <1>5, ContractStutters DEF SendPush, Pending, Waiting, Tries, Request
  <1>6. ASSUME Recv PROVE UNCHANGED Contract!contract
    <2>1. /\ wpc = "recv" /\ wpc' = "handle" /\ queue # <<>> /\ attempts' = 0
          /\ current' = Head(queue) /\ queue' = Tail(queue) /\ UNCHANGED <<receiver, posted>>
      BY <1>6 DEF Recv
    <2>2. Head(queue) \in SinkEvent
      BY <1>0, <2>1
    <2>3. Pending' = Pending
      <3>1. Pending' = <<Head(queue)>> \o Tail(queue)
        BY <1>0, <2>1, <2>2 DEF Pending, Waiting
      <3> QED BY <1>0, <1>2, <2>1, <2>2, <3>1, InFront
    <2> QED BY <1>2, <1>3, <2>1, <2>3, ContractStutters DEF Tries
  <1>7. ASSUME RecvDisconnected \/ ThreadStart \/ SelfJoin, receiver' # receiver
        PROVE  Contract!Close
    <2>1. /\ wpc # "handle" /\ wpc' # "handle" /\ receiver /\ receiver' = FALSE
          /\ queue' = <<>> /\ posted' = posted
      BY <1>0, <1>7
      DEF RecvDisconnected, ThreadStart, SelfJoin, DropReceiver, SinkThreadInv
    <2>2. Pending' = <<>> /\ Tries = 0 /\ Tries' = 0 /\ Request' = Request
      BY <1>2, <1>3, <2>1 DEF Pending, Tries
    <2> QED BY <2>1, <2>2 DEF Contract!Close, Pending, Tries, Request
  <1>8. ASSUME RecvDisconnected \/ ThreadStart \/ SelfJoin, receiver' = receiver
        PROVE  UNCHANGED Contract!contract
    <2>1. /\ wpc # "handle" /\ wpc' # "handle" /\ UNCHANGED <<receiver, queue, posted>>
      BY <1>0, <1>8
      DEF RecvDisconnected, ThreadStart, SelfJoin, DropReceiver, SinkThreadInv
    <2> QED BY <1>3, <2>1, ContractStutters DEF Pending, Tries
  (* A try of the message in hand. *)
  <1> DEFINE Tried ==
               /\ wpc = "handle"
               /\ Request' \in {Request, current}
               /\ receiver' = receiver
               /\ attempts < Contract!MaxTries(current)
  <1>9. ASSUME Tried PROVE Contract!Try
    <2>1. Pending # <<>> /\ Head(Pending) = current
      BY <1>0, <1>1, <1>9, InFront
    <2> QED BY <1>1, <1>9, <2>1 DEF Contract!Try, Pending, Tries, Request
  <1>10. ASSUME Tried, wpc' = "sub", queue' = queue PROVE Contract!Settle
    <2>1. Pending' = Tail(Pending) /\ Tries' = 0
      BY <1>0, <1>1, <1>10, InFront DEF Pending, Tries
    <2> QED BY <1>9, <1>10, <2>1 DEF Contract!Settle, Pending, Tries
  <1>11. ASSUME wpc = "handle",
                \/ posted' = posted
                \/ posted' = Append(posted, current)
         PROVE  Request' \in {Request, current}
    <2>1. CASE posted' = Append(posted, current)
      <3>1. posted' # <<>> /\ posted'[Len(posted')] = current
        <4>1. current \in SinkEvent
          BY <1>1, <1>11
        <4> QED BY <1>0, <2>1, <4>1
      <3> QED BY <3>1 DEF Request
    <2> QED BY <1>3, <1>11, <2>1
  <1>12. ASSUME PushMetadata PROVE Contract!Next
    <2>1. /\ wpc = "handle" /\ current.kind \in {"Startup", "InitStream"}
          /\ UNCHANGED <<receiver, queue, current>>
          /\ posted' = posted \/ posted' = Append(posted, current)
      BY <1>12 DEF PushMetadata, Execute, NotSent
    <2>2. attempts < Contract!MaxTries(current)
      BY <1>0, <1>1, <2>1 DEF Contract!MaxTries
    <2>3. Tried
      BY <1>11, <2>1, <2>2
    <2>4. CASE wpc' = "sub"
      BY <1>10, <2>1, <2>3, <2>4 DEF Contract!Next
    <2>5. CASE wpc' = wpc /\ attempts' = attempts + 1
      <3>1. Pending' = Pending /\ Tries' = Tries + 1
        BY <1>0, <2>1, <2>5 DEF Pending, Waiting, Tries
      <3> QED BY <1>9, <2>3, <3>1 DEF Contract!Next, Contract!Retry, Pending, Tries
    <2> QED BY <1>12, <2>4, <2>5 DEF PushMetadata
  <1>13. ASSUME PushBlock PROVE Contract!Next
    <2>1. /\ wpc = "handle" /\ current.kind = "Block" /\ wpc' = "sub"
          /\ UNCHANGED <<receiver, queue, current>>
          /\ posted' = posted \/ posted' = Append(posted, current)
      BY <1>13 DEF PushBlock, Discard, Execute, NotSent
    <2>2. attempts < Contract!MaxTries(current)
      BY <1>0, <1>1, <2>1 DEF Contract!MaxTries, LoopInv
    <2>3. Tried
      BY <1>11, <2>1, <2>2
    <2> QED BY <1>10, <2>1, <2>3 DEF Contract!Next
  <1>14. ASSUME FetchSub PROVE UNCHANGED Contract!contract
    BY <1>14, ContractStutters DEF FetchSub, Pending, Tries, Request
  <1>15. ASSUME Elsewhere PROVE UNCHANGED Contract!contract
    <2>1. UNCHANGED <<receiver, queue, current, attempts, posted>>
          /\ (wpc' = "handle" <=> wpc = "handle")
      BY <1>15 DEF Elsewhere, ServiceUnchanged
    <2> QED BY <2>1, ContractStutters DEF Pending, Waiting, Tries, Request
  <1> QED
    BY <1>4, <1>5, <1>6, <1>7, <1>8, <1>12, <1>13, <1>14, <1>15, WhoServes
    DEF Contract!Next

(***************************************************************************)
(* The refinement, for any number of threads, blocks, timeouts and         *)
(* retries: every step of the mutex, the channel, the retry loop, the      *)
(* monitor and the shutdown is a step of the abstract queue or changes     *)
(* nothing in it.                                                          *)
(***************************************************************************)
THEOREM RefinesContract == Spec => ImplementsContract
  <1>1. Init => Contract!Init
    BY ContractInit
  <1>2. IndInv /\ ServiceInv /\ [Next]_vars => [Contract!Next]_(Contract!contract)
    BY ContractNext
  <1> QED BY <1>1, <1>2, ServiceInductive, PTL DEF Spec, ImplementsContract, Contract!Spec
=============================================================================
