--------------------------- MODULE EventStreamFlush ---------------------------
(***************************************************************************)
(* TLAPS proofs about EventStream, continued from EventStreamProofs: how   *)
(* large a block gets, the time ranges of the blocks, what a mark of the   *)
(* flush monitor brings about, and what the sink has when a shutdown       *)
(* replaces it.  Each rests on an invariant of its own.                    *)
(***************************************************************************)
EXTENDS EventStreamProofs, FiniteSets, FiniteSetTheorems

(* The monitor only ever lowers a threshold; the queue only grows. *)
SizeOf(s) ==
    /\ full_threshold[s] <= Threshold
    /\ \A k \in 1 .. Len(block[s].ends) :
          /\ block[s].ends[k] <= block[s].len_bytes
          /\ k + Cardinality(Flushers(s)) <= Len(block[s].ends)
               => block[s].ends[k] <= Threshold

SizeInv == \A s \in Streams : SizeOf(s)

(* c begins after b does and before b ends. *)
Overlaps(b, c) == b.begin < c.begin /\ c.begin <= b.end

(* The events of a closed block of s lie in its time range; in a shared    *)
(* stream they may be older.                                               *)
Within(s, b) ==
    \A k \in DOMAIN b.events :
        b.events[k] < b.end /\ (s \in Traced => b.begin < b.events[k])

(* Nothing was stamped, and no block created, in the future; the owner of  *)
(* a thread stream stamps after its block was created.                     *)
ClockInv ==
    /\ \A s \in Streams :
          /\ block[s].begin <= clock
          /\ \A k \in DOMAIN block[s].events :
                /\ block[s].events[k] <= clock
                /\ s \in Traced => block[s].begin < block[s].events[k]
    /\ \A t \in Threads : pc[t] = "push" =>
          /\ time[t] <= clock
          /\ arg[t] \in Traced => block[arg[t]].begin < time[t]

(* A stream that is not registered yet is unused. *)
UnusedInv ==
    \A s \in Traced \ thread_streams :
        /\ pushed[s] = <<>> /\ sent[s] = <<>>
        /\ \A t \in Threads : pc[t] # "idle" => arg[t] # s

(* The last block the sink has got. *)
LastSent(s) == sent[s][Len(sent[s])]

(* The block on its way to the sink, or else the current one, overlaps the *)
(* last one the sink got.                                                  *)
OverlapInv ==
    \A s \in Streams :
        /\ \A t \in Threads : InSink(t, s) =>
              /\ Overlaps(old[t], block[s])
              /\ Within(s, old[t])
              /\ sent[s] # <<>> => Overlaps(LastSent(s), old[t])
        /\ (\A t \in Threads : ~InSink(t, s)) /\ sent[s] # <<>> =>
              Overlaps(LastSent(s), block[s])

SentTimesInv ==
    \A s \in Streams :
        /\ \A i \in 1 .. Len(sent[s]) : Within(s, sent[s][i])
        /\ \A i \in 1 .. Len(sent[s]) - 1 : Overlaps(sent[s][i], sent[s][i + 1])

TimeInv == ClockInv /\ UnusedInv /\ OverlapInv /\ SentTimesInv

(* is_empty of a block counts bytes, and every event has some. *)
EmptyInv == \A s \in Streams : block[s].len_bytes = 0 => block[s].events = <<>>

(* Until the events that were there at the mark are in a block that was    *)
(* cut, the threshold is 0, and the owner has recorded nothing since or is *)
(* on its way to cut it.                                                   *)
MarkInv ==
    \A t \in Traced :
        /\ raised[t] <= Len(pushed[t])
        /\ \/ raised[t] <= block[t].object_offset
           \/ /\ full_threshold[t] = 0
              /\ \/ Len(pushed[t]) = raised[t]
                 \/ pc[t] = "flush" /\ arg[t] = t

(* The shutdown is flushing s, and what it owes is in what it flushes. *)
Paying(s) ==
    \/ pc[Main] = "flush" /\ arg[Main] = s
    \/ InSink(Main, s) /\ next_offset(old[Main]) >= due[s]

(* The shutdown has still to flush s. *)
Ahead(s) == (down = "log" /\ s \in Shared) \/ (down = "metrics" /\ s = Metrics)

DueInv ==
    /\ down # "done" <=> sink = "real"
    /\ sink = "real" => \A s \in Streams : delivered[s] = SentEnd(s)
    /\ down = "run" => \A s \in Streams : due[s] = 0
    /\ \A s \in Streams :
          /\ due[s] <= Len(pushed[s])
          /\ delivered[s] >= due[s] \/ (down # "done" /\ (Paying(s) \/ Ahead(s)))

-----------------------------------------------------------------------------
(* What the steps do, stream by stream and thread by thread. *)

SameBut(t) ==
    \A u \in Threads \ {t} :
        pc'[u] = pc[u] /\ arg'[u] = arg[u] /\ time'[u] = time[u] /\ old'[u] = old[u]

(* t has pushed an event of n bytes. *)
PushEffect(t, n) ==
    LET s == arg[t] IN
    /\ s \in Streams /\ pc[t] = "push"
    /\ \A u \in Threads : ~InSink(u, s)
    /\ block'[s].object_offset = block[s].object_offset
    /\ block'[s].begin = block[s].begin
    /\ block'[s].events = Append(block[s].events, time[t])
    /\ block'[s].len_bytes = block[s].len_bytes + n
    /\ block'[s].ends = Append(block[s].ends, block[s].len_bytes + n)
    /\ pushed'[s] = Append(pushed[s], time[t])
    /\ \A r \in Streams \ {s} : block'[r] = block[r] /\ pushed'[r] = pushed[r]
    /\ IF block[s].len_bytes + n > full_threshold[s]
       THEN pc'[t] = "flush" /\ arg'[t] = s
       ELSE pc'[t] = "idle" /\ arg'[t] = None
    /\ SameBut(t)
    /\ UNCHANGED <<clock, full_threshold, old, thread_streams, down, sink, sent,
                   delivered, due, raised>>

LEMMA PushDoes ==
    ASSUME IndInv, NEW t \in Threads, Push(t)
    PROVE  \E n \in Positive : PushEffect(t, n)
  <1> USE Names DEF IndInv, TypeOK
  <1> DEFINE s == arg[t]
  <1>1. s \in Streams /\ \A u \in Threads : ~InSink(u, s)
    BY NoneInSink DEF Push
  <1>2. PICK n \in Positive :
          /\ block' = [block EXCEPT ![s] = push(block[s], time[t], n)]
          /\ IF is_full(s, block[s].len_bytes + n)
             THEN pc' = [pc EXCEPT ![t] = "flush"] /\ UNCHANGED arg
             ELSE Return(t)
    BY <1>1 DEF Push
  <1>3. block[s] \in Block
    BY <1>1 DEF SourceOK
  <1>4. /\ block'[s] = push(block[s], time[t], n)
        /\ \A r \in Streams \ {s} : block'[r] = block[r]
    BY <1>1, <1>2 DEF SourceOK
  <1>5. /\ block'[s].object_offset = block[s].object_offset
        /\ block'[s].begin = block[s].begin
        /\ block'[s].events = Append(block[s].events, time[t])
        /\ block'[s].len_bytes = block[s].len_bytes + n
        /\ block'[s].ends = Append(block[s].ends, block[s].len_bytes + n)
    BY <1>3, <1>4 DEF push, Block
  <1>6. /\ pushed'[s] = Append(pushed[s], time[t])
        /\ \A r \in Streams \ {s} : pushed'[r] = pushed[r]
    BY <1>1 DEF Push, HistoryOK
  <1>7. IF block[s].len_bytes + n > full_threshold[s]
        THEN pc'[t] = "flush" /\ arg'[t] = s
        ELSE pc'[t] = "idle" /\ arg'[t] = None
    BY <1>2 DEF is_full, Return, CallsOK
  <1>8. SameBut(t)
    BY <1>2 DEF Push, Return, CallsOK, SameBut
  <1>9. /\ pc[t] = "push"
        /\ UNCHANGED <<clock, full_threshold, old, thread_streams, down, sink, sent,
                       delivered, due, raised>>
    BY DEF Push, control
  <1> QED BY <1>1, <1>4, <1>5, <1>6, <1>7, <1>8, <1>9 DEF PushEffect

(* t has found the block it meant to flush empty. *)
EmptyEffect(t) ==
    LET s == arg[t] IN
    /\ s \in Streams /\ pc[t] = "flush"
    /\ \A u \in Threads : ~InSink(u, s)
    /\ block[s].len_bytes = 0
    /\ pc'[t] = "idle" /\ arg'[t] = None
    /\ SameBut(t)
    /\ UNCHANGED <<clock, block, full_threshold, time, old, thread_streams, down, sink,
                   pushed, sent, delivered, due, raised>>

LEMMA FlushEmptyDoes ==
    ASSUME IndInv, NEW t \in Threads, FlushEmpty(t)
    PROVE  EmptyEffect(t)
  <1> USE Names DEF IndInv, TypeOK
  <1>1. arg[t] \in Streams /\ \A u \in Threads : ~InSink(u, arg[t])
    BY NoneInSink DEF FlushEmpty
  <1>2. pc'[t] = "idle" /\ arg'[t] = None /\ SameBut(t)
    BY DEF FlushEmpty, Return, CallsOK, SameBut
  <1> QED BY <1>1, <1>2 DEF FlushEmpty, EmptyEffect, source, control, history

(* t has cut the block. *)
ReplaceEffect(t) ==
    LET s == arg[t] IN
    /\ s \in Streams /\ pc[t] = "flush"
    /\ \A u \in Threads : ~InSink(u, s)
    /\ clock' = clock + 2
    /\ block'[s].object_offset = next_offset(block[s])
    /\ block'[s].begin = clock + 1
    /\ block'[s].events = <<>>
    /\ block'[s].len_bytes = 0
    /\ block'[s].ends = <<>>
    /\ full_threshold'[s] = Threshold
    /\ old'[t].object_offset = block[s].object_offset
    /\ old'[t].begin = block[s].begin
    /\ old'[t].events = block[s].events
    /\ old'[t].end = clock + 2
    /\ \A r \in Streams \ {s} :
          block'[r] = block[r] /\ full_threshold'[r] = full_threshold[r]
    /\ pc'[t] = "sink" /\ arg'[t] = s
    /\ SameBut(t)
    /\ UNCHANGED <<thread_streams, down, sink, pushed, sent, delivered, due, raised>>

LEMMA ReplaceBlockDoes ==
    ASSUME IndInv, NEW t \in Threads, ReplaceBlock(t)
    PROVE  ReplaceEffect(t)
  <1> USE Names DEF IndInv, TypeOK
  <1> DEFINE s == arg[t]
  <1>1. s \in Streams /\ \A u \in Threads : ~InSink(u, s)
    BY NoneInSink DEF ReplaceBlock
  <1>2. /\ block'[s] = NewBlock(next_offset(block[s]), clock + 1)
        /\ full_threshold'[s] = Threshold
        /\ \A r \in Streams \ {s} :
              block'[r] = block[r] /\ full_threshold'[r] = full_threshold[r]
    BY <1>1 DEF ReplaceBlock, ReplaceTimes, SourceOK
  <1>3. old'[t] = Close(block[s], clock + 2)
    BY DEF ReplaceBlock, ReplaceTimes, CallsOK
  <1>4. pc'[t] = "sink" /\ arg'[t] = s /\ SameBut(t)
    BY DEF ReplaceBlock, CallsOK, SameBut
  <1>5. /\ pc[t] = "flush" /\ clock' = clock + 2
        /\ UNCHANGED <<thread_streams, down, sink, pushed, sent, delivered, due, raised>>
    BY DEF ReplaceBlock, control, history
  <1> QED
    BY <1>1, <1>2, <1>3, <1>4, <1>5 DEF ReplaceEffect, NewBlock, Close

(* The sink has taken the block t cut. *)
ProcessEffect(t) ==
    LET s == arg[t] IN
    /\ s \in Streams /\ InSink(t, s) /\ old[t] \in ClosedBlock
    /\ \A u \in Threads : InSink(u, s) => u = t
    /\ sent'[s] = Append(sent[s], old[t])
    /\ delivered'[s] = IF sink = "real" THEN next_offset(old[t]) ELSE delivered[s]
    /\ \A r \in Streams \ {s} : sent'[r] = sent[r] /\ delivered'[r] = delivered[r]
    /\ pc'[t] = "idle" /\ arg'[t] = None
    /\ SameBut(t)
    /\ UNCHANGED <<clock, block, full_threshold, thread_streams, down, sink, pushed,
                   due, raised>>

LEMMA OnProcessBlockDoes ==
    ASSUME IndInv, NEW t \in Threads, OnProcessBlock(t)
    PROVE  ProcessEffect(t)
  <1> USE Names DEF IndInv, TypeOK
  <1> DEFINE s == arg[t]
  <1>1. s \in Streams /\ InSink(t, s) /\ old[t] \in ClosedBlock
    BY DEF OnProcessBlock, CallInv, InSink
  <1>2. \A u \in Threads : InSink(u, s) => u = t
    BY <1>1 DEF InSink, CallInv
  <1>3. /\ sent'[s] = Append(sent[s], old[t])
        /\ delivered'[s] = IF sink = "real" THEN next_offset(old[t]) ELSE delivered[s]
        /\ \A r \in Streams \ {s} : sent'[r] = sent[r] /\ delivered'[r] = delivered[r]
    BY <1>1 DEF OnProcessBlock, HistoryOK, next_offset
  <1>4. pc'[t] = "idle" /\ arg'[t] = None /\ SameBut(t)
    BY DEF OnProcessBlock, Return, CallsOK, SameBut
  <1>5. UNCHANGED <<clock, block, full_threshold, thread_streams, down, sink, pushed,
                    due, raised>>
    BY DEF OnProcessBlock, control
  <1> QED BY <1>1, <1>2, <1>3, <1>4, <1>5 DEF ProcessEffect

(* The other steps leave the content of the blocks alone and at most start *)
(* a call.                                                                 *)
Other ==
    \/ \E t \in Threads : Record(t)
    \/ Tick \/ TickStep
    \/ DropTelemetryGuard \/ ShutdownTelemetry \/ ShutdownStep
    \/ UNCHANGED vars

OtherEffect ==
    /\ \A s \in Streams :
          /\ block'[s].object_offset = block[s].object_offset
          /\ block'[s].events = block[s].events
          /\ block'[s].len_bytes = block[s].len_bytes
          /\ block'[s].ends = block[s].ends
          /\ full_threshold'[s] \in {full_threshold[s], 0}
    /\ \A u \in Threads :
          \/ pc'[u] = pc[u] /\ arg'[u] = arg[u] /\ time'[u] = time[u]
          \/ pc[u] = "idle" /\ pc'[u] \in {"push", "flush"}
    /\ clock' \in {clock, clock + 1}
    /\ thread_streams \subseteq thread_streams'
    /\ UNCHANGED <<old, pushed, sent, delivered>>

LEMMA OtherDoes ==
    ASSUME IndInv, Other
    PROVE  OtherEffect
  <1> USE Names DEF IndInv, TypeOK
  <1>1. CASE \E t \in Threads, s \in Streams : Stamp(t, s)
    <2>1. PICK t \in Threads, s \in Streams : Stamp(t, s)
      BY <1>1
    <2> QED
      BY <2>1 DEF Stamp, Free, CallsOK, OtherEffect, source, control, history
  <1>2. CASE \E t \in Threads : InitThreadStream(t)
    <2>1. PICK t \in Threads : InitThreadStream(t)
      BY <1>2
    <2>2. t \in Streams
      BY <2>1 DEF InitThreadStream
    <2>3. \A s \in Streams :
             /\ block'[s].object_offset = block[s].object_offset
             /\ block'[s].events = block[s].events
             /\ block'[s].len_bytes = block[s].len_bytes
             /\ block'[s].ends = block[s].ends
      BY <2>1, <2>2 DEF InitThreadStream, SourceOK, Block
    <2> QED BY <2>1, <2>3 DEF InitThreadStream, OtherEffect, calls, history
  <1>3. CASE \E t \in Threads : DropThreadGuard(t)
    BY <1>3 DEF DropThreadGuard, CallFlush, CallsOK, OtherEffect, source, control, history
  <1>4. CASE Tick
    BY <1>4 DEF Tick, OtherEffect, source, calls
  <1>5. CASE TickFlush
    BY <1>5 DEF TickFlush, CallFlush, CallsOK, OtherEffect, source, history
  <1>6. CASE \E t \in Traced : SetFull(t)
    BY <1>6 DEF SetFull, SetFullValue, SourceOK, OtherEffect, calls
  <1>7. CASE TickDone
    BY <1>7 DEF TickDone, OtherEffect, source, calls, history
  <1>8. CASE DropTelemetryGuard
    BY <1>8 DEF DropTelemetryGuard, CallFlush, CallsOK, OtherEffect, source
  <1>9. CASE ShutdownTelemetry
    BY <1>9 DEF ShutdownTelemetry, OtherEffect, source, calls
  <1>10. CASE ShutdownFlush
    BY <1>10 DEF ShutdownFlush, CallFlush, CallsOK, OtherEffect, source, history
  <1>11. CASE ShutdownDispatch
    BY <1>11 DEF ShutdownDispatch, OtherEffect, source, calls, history
  <1>12. CASE UNCHANGED vars
    BY <1>12 DEF vars, OtherEffect, source, calls, control, history
  <1> QED
    BY <1>1, <1>2, <1>3, <1>4, <1>5, <1>6, <1>7, <1>8, <1>9, <1>10, <1>11, <1>12
    DEF Other, Record, TickStep, ShutdownStep

(* The five kinds of steps. *)
LEMMA Steps ==
    ASSUME IndInv, [Next]_vars
    PROVE  \/ \E t \in Threads, n \in Positive : PushEffect(t, n)
           \/ \E t \in Threads : EmptyEffect(t)
           \/ \E t \in Threads : ReplaceEffect(t)
           \/ \E t \in Threads : ProcessEffect(t)
           \/ Other
  <1>1. ASSUME NEW t \in Threads, Call(t)
        PROVE  \/ \E n \in Positive : PushEffect(t, n)
               \/ EmptyEffect(t) \/ ReplaceEffect(t) \/ ProcessEffect(t)
    BY <1>1, PushDoes, FlushEmptyDoes, ReplaceBlockDoes, OnProcessBlockDoes DEF Call
  <1> QED BY <1>1 DEF Next, Other

-----------------------------------------------------------------------------
(* The size of a block. *)

LEMMA FlushersFinite ==
    ASSUME NEW s
    PROVE  /\ IsFiniteSet(Flushers(s)) /\ IsFiniteSet(Flushers(s)')
           /\ Cardinality(Flushers(s)) \in Nat /\ Cardinality(Flushers(s)') \in Nat
           /\ Flushers(s) \subseteq Flushers(s)' =>
                 Cardinality(Flushers(s)) <= Cardinality(Flushers(s)')
  <1>1. /\ Flushers(s) \subseteq Threads /\ Flushers(s)' \subseteq Threads
        /\ IsFiniteSet(Threads)
    BY StreamAssumption DEF Flushers
  <1>2. IsFiniteSet(Flushers(s)) /\ IsFiniteSet(Flushers(s)')
    BY <1>1, FS_Subset
  <1> QED BY <1>2, FS_CardinalityType, FS_Subset

LEMMA SizeTypes ==
    ASSUME IndInv, NEW s \in Streams
    PROVE  /\ full_threshold[s] \in Nat /\ block[s].len_bytes \in Nat
           /\ block[s].ends \in Seq(Nat) /\ Len(block[s].ends) \in Nat
           /\ \A k \in 1 .. Len(block[s].ends) : block[s].ends[k] \in Nat
  <1>1. full_threshold[s] \in Nat /\ block[s] \in Block
    BY DEF IndInv, TypeOK, SourceOK
  <1>2. block[s].len_bytes \in Nat /\ block[s].ends \in Seq(Nat)
    BY <1>1 DEF Block
  <1> QED BY <1>1, <1>2

(* More threads about to flush the same block, and a threshold that is not *)
(* raised, disturb nothing.                                                *)
LEMMA SizeKept ==
    ASSUME IndInv, NEW s \in Streams, SizeOf(s),
           block'[s].ends = block[s].ends, block'[s].len_bytes = block[s].len_bytes,
           full_threshold'[s] <= Threshold, Flushers(s) \subseteq Flushers(s)'
    PROVE  SizeOf(s)'
  <1>1. /\ Cardinality(Flushers(s)) \in Nat /\ Cardinality(Flushers(s)') \in Nat
        /\ Cardinality(Flushers(s)) <= Cardinality(Flushers(s)')
    BY FlushersFinite
  <1> QED BY <1>1, SizeTypes DEF SizeOf

LEMMA InitSizeInv ==
    ASSUME Init
    PROVE  SizeInv
  <1>1. \A s \in Streams : full_threshold[s] = Threshold /\ block[s].ends = <<>>
    BY DEF Init, NewBlock
  <1> QED BY <1>1, Names DEF SizeInv, SizeOf

LEMMA NextSizeInv ==
    ASSUME IndInv, SizeInv, [Next]_vars
    PROVE  SizeInv'
  <1> USE Names
  <1> SUFFICES ASSUME NEW r \in Streams PROVE SizeOf(r)'
    BY DEF SizeInv
  <1>0. /\ SizeOf(r) /\ full_threshold[r] \in Nat /\ full_threshold[r] <= Threshold
        /\ block[r].len_bytes \in Nat /\ block[r].ends \in Seq(Nat)
        /\ Cardinality(Flushers(r)) \in Nat /\ Cardinality(Flushers(r)') \in Nat
    BY SizeTypes, FlushersFinite DEF SizeInv, SizeOf
  <1>1. ASSUME NEW t \in Threads, NEW n \in Positive, PushEffect(t, n)
        PROVE  SizeOf(r)'
    <2>1. full_threshold' = full_threshold /\ n \in Nat
      BY <1>1 DEF PushEffect
    <2>2. CASE r # arg[t]
      <3>1. Flushers(r) \subseteq Flushers(r)' /\ block'[r] = block[r]
        BY <1>1, <2>2 DEF PushEffect, SameBut, Flushers
      <3> QED BY <1>0, <2>1, <3>1, SizeKept
    <2>3. CASE r = arg[t]
      <3> DEFINE q == block[r].ends
                 e == block[r].len_bytes + n
      <3>0. block'[r].ends = Append(q, e) /\ block'[r].len_bytes = e
        BY <1>1, <2>3 DEF PushEffect
      <3>1. /\ block'[r].ends = Append(q, e) /\ block'[r].len_bytes = e
            /\ q \in Seq(Nat) /\ e \in Nat /\ block[r].len_bytes <= e /\ Len(q) \in Nat
        BY <1>0, <2>1, <3>0
      <3>2. /\ Len(Append(q, e)) = Len(q) + 1
            /\ \A i \in 1 .. Len(q) : Append(q, e)[i] = q[i]
            /\ Append(q, e)[Len(q) + 1] = e
        BY <3>1, AppendAt
      <3>3. ASSUME NEW k \in 1 .. Len(q) + 1
            PROVE  Append(q, e)[k] \in Nat /\ Append(q, e)[k] <= e
        <4>1. CASE k = Len(q) + 1
          BY <3>1, <3>2, <4>1
        <4>2. CASE k \in 1 .. Len(q)
          <5>1. q[k] \in Nat /\ q[k] <= block[r].len_bytes
            BY <1>0, <4>2, SizeTypes DEF SizeOf
          <5>2. Append(q, e)[k] = q[k]
            BY <3>2, <4>2
          <5>3. q[k] <= e
            BY <1>0, <3>1, <5>1
          <5> QED BY <5>1, <5>2, <5>3
        <4> QED BY <3>1, <4>1, <4>2
      (* An event that does not find the block full is within the          *)
      (* threshold, and so are those before it.                            *)
      <3>4. CASE e <= Threshold
        <4>1. \A k \in 1 .. Len(q) + 1 : Append(q, e)[k] <= Threshold
          BY <3>1, <3>3, <3>4
        <4> QED BY <1>0, <2>1, <3>1, <3>2, <3>3, <4>1 DEF SizeOf
      (* One that does is the pusher's own share. *)
      <3>5. CASE ~(e <= Threshold)
        <4>1. block[r].len_bytes + n > full_threshold[r]
          BY <1>0, <2>1, <3>1, <3>5
        <4>2. pc'[t] = "flush" /\ arg'[t] = r /\ pc[t] = "push" /\ SameBut(t)
          BY <1>1, <2>3, <4>1 DEF PushEffect
        <4>3. Flushers(r)' = Flushers(r) \cup {t} /\ t \notin Flushers(r)
          BY <4>2 DEF SameBut, Flushers
        <4>4. Cardinality(Flushers(r)') = Cardinality(Flushers(r)) + 1
          BY <4>3, FlushersFinite, FS_AddElement
        <4>5. ASSUME NEW k \in 1 .. Len(q) + 1,
                     k + Cardinality(Flushers(r)') <= Len(q) + 1
              PROVE  Append(q, e)[k] <= Threshold
          <5>1. k \in 1 .. Len(q) /\ k + Cardinality(Flushers(r)) <= Len(q)
            BY <1>0, <3>1, <4>4, <4>5
          <5> QED BY <1>0, <3>2, <5>1 DEF SizeOf
        <4> QED BY <1>0, <2>1, <3>1, <3>2, <3>3, <4>5 DEF SizeOf
      <3> QED BY <3>4, <3>5
    <2> QED BY <2>2, <2>3
  <1>2. ASSUME NEW t \in Threads, EmptyEffect(t)
        PROVE  SizeOf(r)'
    <2>1. full_threshold' = full_threshold /\ block' = block
      BY <1>2 DEF EmptyEffect
    <2>2. CASE r # arg[t]
      <3>1. Flushers(r) \subseteq Flushers(r)'
        BY <1>2, <2>2 DEF EmptyEffect, SameBut, Flushers
      <3> QED BY <1>0, <2>1, <3>1, SizeKept
    <2>3. CASE r = arg[t]
      <3>1. block[r].len_bytes = 0
        BY <1>2, <2>3 DEF EmptyEffect
      <3>2. \A k \in 1 .. Len(block[r].ends) : block[r].ends[k] <= Threshold
        BY <1>0, <3>1, SizeTypes DEF SizeOf
      <3> QED BY <1>0, <2>1, <3>2 DEF SizeOf
    <2> QED BY <2>2, <2>3
  <1>3. ASSUME NEW t \in Threads, ReplaceEffect(t)
        PROVE  SizeOf(r)'
    <2>1. CASE r # arg[t]
      <3>1. Flushers(r) \subseteq Flushers(r)'
        BY <1>3, <2>1 DEF ReplaceEffect, SameBut, Flushers
      <3>2. block'[r] = block[r] /\ full_threshold'[r] = full_threshold[r]
        BY <1>3, <2>1 DEF ReplaceEffect
      <3> QED BY <1>0, <3>1, <3>2, SizeKept
    <2>2. CASE r = arg[t]
      <3>1. block'[r].ends = <<>> /\ full_threshold'[r] = Threshold
        BY <1>3, <2>2 DEF ReplaceEffect
      <3> QED BY <3>1 DEF SizeOf
    <2> QED BY <2>1, <2>2
  <1>4. ASSUME NEW t \in Threads, ProcessEffect(t)
        PROVE  SizeOf(r)'
    <2>1. Flushers(r) \subseteq Flushers(r)'
      BY <1>4 DEF ProcessEffect, InSink, SameBut, Flushers
    <2>2. block' = block /\ full_threshold' = full_threshold
      BY <1>4 DEF ProcessEffect
    <2> QED BY <1>0, <2>1, <2>2, SizeKept
  <1>5. ASSUME Other
        PROVE  SizeOf(r)'
    <2>1. OtherEffect
      BY <1>5, OtherDoes
    <2>2. Flushers(r) \subseteq Flushers(r)'
      BY <2>1 DEF OtherEffect, Flushers
    <2>3. full_threshold'[r] <= Threshold
      BY <1>0, <2>1 DEF OtherEffect
    <2> QED BY <1>0, <2>1, <2>2, <2>3, SizeKept DEF OtherEffect
  <1> QED BY <1>1, <1>2, <1>3, <1>4, <1>5, Steps

(***************************************************************************)
(* However many threads push between a full block being noticed and its    *)
(* being cut, and however long their objects are, at most one object for   *)
(* each of them lies beyond the threshold: a writer that leaves the block  *)
(* too full goes on to flush it, and stays until the block is cut.         *)
(***************************************************************************)
THEOREM OverfullBounded == Spec => []Overfull
  <1>1. Init => SizeInv
    BY InitSizeInv
  <1>2. IndInv /\ SizeInv /\ [Next]_vars => SizeInv'
    BY NextSizeInv
  <1>3. ASSUME IndInv, SizeInv PROVE Overfull
    <2>1. \A s \in Streams : DOMAIN block[s].ends = 1 .. Len(block[s].ends)
      BY <1>3, SizeTypes
    <2> QED BY <1>3, <2>1 DEF SizeInv, SizeOf, Overfull
  <1> QED BY <1>1, <1>2, <1>3, Inductive, PTL DEF Spec

-----------------------------------------------------------------------------
(* The time ranges of the blocks. *)

LEMMA InitTimeInv == Init => TimeInv
  <1> SUFFICES ASSUME Init PROVE TimeInv
    OBVIOUS
  <1> USE Names
  <1>1. \A s \in Streams : /\ block[s].begin = 0 /\ block[s].events = <<>>
                           /\ pushed[s] = <<>> /\ sent[s] = <<>>
    BY DEF Init, NewBlock
  <1>2. clock = 0 /\ \A t \in Threads : pc[t] = "idle"
    BY DEF Init
  <1>3. ClockInv
    BY <1>1, <1>2 DEF ClockInv
  <1>4. UnusedInv
    BY <1>1, <1>2 DEF UnusedInv
  <1>5. OverlapInv
    BY <1>1, <1>2 DEF OverlapInv, InSink
  <1>6. SentTimesInv
    BY <1>1 DEF SentTimesInv
  <1> QED BY <1>3, <1>4, <1>5, <1>6 DEF TimeInv

(* The types the arithmetic needs. *)
LEMMA TimeTypes ==
    ASSUME IndInv
    PROVE  /\ clock \in Nat
           /\ \A s \in Streams :
                 /\ block[s].begin \in Nat /\ block[s].object_offset \in Nat
                 /\ block[s].events \in Seq(Nat)
                 /\ DOMAIN block[s].events = 1 .. Len(block[s].events)
                 /\ Len(block[s].events) \in Nat
                 /\ \A k \in DOMAIN block[s].events : block[s].events[k] \in Nat
                 /\ pushed[s] \in Seq(Nat) /\ Len(pushed[s]) \in Nat
                 /\ sent[s] \in Seq(ClosedBlock) /\ Len(sent[s]) \in Nat
           /\ \A t \in Threads : time[t] \in Nat
  BY DEF IndInv, TypeOK, SourceOK, CallsOK, HistoryOK, Block

(* A stream of which nothing was recorded has an empty block. *)
LEMMA UnusedBlock ==
    ASSUME IndInv, NEW s \in Streams, pushed[s] = <<>>
    PROVE  block[s].events = <<>>
  <1>1. 0 = block[s].object_offset + Len(block[s].events)
    BY DEF IndInv, ChainInv, CurrentInv, next_offset
  <1>2. Len(block[s].events) = 0
    BY <1>1, TimeTypes
  <1> QED BY <1>2, TimeTypes

LEMMA ClockInvNext ==
    ASSUME IndInv, ClockInv, UnusedInv, [Next]_vars
    PROVE  ClockInv'
  <1> USE Names
  <1>0. /\ clock \in Nat
        /\ \A t \in Threads : time[t] \in Nat
    BY TimeTypes
  <1> DEFINE Streamly(s) ==
               /\ block'[s].begin <= clock'
               /\ \A k \in DOMAIN block'[s].events :
                     /\ block'[s].events[k] <= clock'
                     /\ s \in Traced => block'[s].begin < block'[s].events[k]
             Threadly(t) ==
               pc'[t] = "push" =>
                 /\ time'[t] <= clock'
                 /\ arg'[t] \in Traced => block'[arg'[t]].begin < time'[t]
  <1> SUFFICES /\ \A s \in Streams : Streamly(s)
               /\ \A t \in Threads : Threadly(t)
    BY Zenon DEF ClockInv
  (* A stream and a thread that the step leaves alone. *)
  <1>1. ASSUME NEW s \in Streams, clock' \in Nat, clock <= clock',
               block'[s].begin = block[s].begin, block'[s].events = block[s].events
        PROVE  Streamly(s)
    BY <1>0, <1>1, TimeTypes DEF ClockInv
  <1>2. ASSUME NEW t \in Threads, clock' \in Nat, clock <= clock',
               pc[t] = "push" => (arg[t] \in Traced => block'[arg[t]].begin = block[arg[t]].begin),
               pc'[t] = pc[t], arg'[t] = arg[t], time'[t] = time[t]
        PROVE  Threadly(t)
    <2>1. SUFFICES ASSUME pc[t] = "push"
                   PROVE  /\ time[t] <= clock'
                          /\ arg[t] \in Traced => block'[arg[t]].begin < time[t]
      BY <1>2
    <2>2. /\ time[t] <= clock
          /\ arg[t] \in Traced => block[arg[t]].begin < time[t]
      BY <2>1 DEF ClockInv
    <2> QED BY <1>0, <1>2, <2>1, <2>2
  <1>3. ASSUME NEW t \in Threads, NEW n \in Positive, PushEffect(t, n)
        PROVE  /\ \A s \in Streams : Streamly(s)
               /\ \A u \in Threads : Threadly(u)
    <2> DEFINE a == arg[t]
    <2>1. /\ clock' = clock /\ a \in Streams /\ pc[t] = "push"
          /\ block'[a].begin = block[a].begin
          /\ block'[a].events = Append(block[a].events, time[t])
          /\ \A r \in Streams \ {a} : block'[r] = block[r]
          /\ pc'[t] # "push" /\ SameBut(t)
      BY <1>3 DEF PushEffect
    <2>2. ASSUME NEW s \in Streams, s # a PROVE Streamly(s)
      BY <1>0, <1>1, <2>1, <2>2
    <2>3. Streamly(a)
      <3>1. time[t] <= clock /\ (a \in Traced => block[a].begin < time[t])
        BY <2>1 DEF ClockInv
      <3>2. block[a].begin <= clock
        BY <2>1 DEF ClockInv
      <3>3. ASSUME NEW k \in DOMAIN Append(block[a].events, time[t])
            PROVE  /\ Append(block[a].events, time[t])[k] <= clock
                   /\ a \in Traced => block[a].begin < Append(block[a].events, time[t])[k]
        <4>1. /\ block[a].events \in Seq(Nat) /\ Len(block[a].events) \in Nat
              /\ DOMAIN block[a].events = 1 .. Len(block[a].events)
          BY <2>1, TimeTypes
        <4>2. k \in 1 .. Len(block[a].events) + 1
          BY <1>0, <4>1
        <4>3. CASE k \in 1 .. Len(block[a].events)
          <5>1. Append(block[a].events, time[t])[k] = block[a].events[k]
            BY <1>0, <4>1, <4>3, AppendAt
          <5> QED BY <2>1, <4>1, <4>3, <5>1 DEF ClockInv
        <4>4. CASE k = Len(block[a].events) + 1
          <5>1. Append(block[a].events, time[t])[k] = time[t]
            BY <1>0, <4>1, <4>4, AppendAt
          <5> QED BY <3>1, <5>1
        <4> QED BY <4>1, <4>2, <4>3, <4>4
      <3> QED BY <2>1, <3>2, <3>3
    <2>4. ASSUME NEW u \in Threads, u # t PROVE Threadly(u)
      <3>1. pc[u] = "push" => (arg[u] \in Traced => block'[arg[u]].begin = block[arg[u]].begin)
        BY <2>1
      <3> QED BY <1>0, <1>2, <2>1, <2>4, <3>1 DEF SameBut
    <2>5. Threadly(t)
      BY <2>1
    <2> QED BY <2>2, <2>3, <2>4, <2>5
  <1>4. ASSUME NEW t \in Threads, EmptyEffect(t)
        PROVE  /\ \A s \in Streams : Streamly(s)
               /\ \A u \in Threads : Threadly(u)
    <2>1. clock' = clock /\ block' = block /\ pc'[t] # "push" /\ SameBut(t)
      BY <1>4 DEF EmptyEffect
    <2>2. \A s \in Streams : Streamly(s)
      BY <1>0, <1>1, <2>1
    <2>3. ASSUME NEW u \in Threads PROVE Threadly(u)
      <3>1. CASE u = t
        BY <2>1, <3>1
      <3>2. CASE u # t
        BY <1>0, <1>2, <2>1, <3>2 DEF SameBut
      <3> QED BY <3>1, <3>2
    <2> QED BY <2>2, <2>3
  <1>5. ASSUME NEW t \in Threads, ReplaceEffect(t)
        PROVE  /\ \A s \in Streams : Streamly(s)
               /\ \A u \in Threads : Threadly(u)
    <2> DEFINE a == arg[t]
    <2>1. /\ clock' = clock + 2 /\ a \in Streams /\ pc[t] = "flush"
          /\ block'[a].begin = clock + 1
          /\ block'[a].events = <<>>
          /\ \A r \in Streams \ {a} : block'[r] = block[r]
          /\ pc'[t] # "push" /\ SameBut(t)
      BY <1>5 DEF ReplaceEffect
    <2>2. ASSUME NEW s \in Streams PROVE Streamly(s)
      <3>1. CASE s = a
        BY <1>0, <2>1, <3>1
      <3>2. CASE s # a
        BY <1>0, <1>1, <2>1, <3>2
      <3> QED BY <3>1, <3>2
    <2>3. ASSUME NEW u \in Threads PROVE Threadly(u)
      <3>1. CASE u = t
        BY <2>1, <3>1
      <3>2. CASE u # t
        <4>1. pc[u] = "push" /\ arg[u] \in Traced => arg[u] # a
          BY <2>1, <3>2 DEF IndInv, CallInv
        <4>2. pc[u] = "push" => (arg[u] \in Traced => block'[arg[u]].begin = block[arg[u]].begin)
          BY <2>1, <4>1
        <4> QED BY <1>0, <1>2, <2>1, <3>2, <4>2 DEF SameBut
      <3> QED BY <3>1, <3>2
    <2> QED BY <2>2, <2>3
  <1>6. ASSUME NEW t \in Threads, ProcessEffect(t)
        PROVE  /\ \A s \in Streams : Streamly(s)
               /\ \A u \in Threads : Threadly(u)
    <2>1. clock' = clock /\ block' = block /\ pc'[t] # "push" /\ SameBut(t)
      BY <1>6 DEF ProcessEffect
    <2>2. \A s \in Streams : Streamly(s)
      BY <1>0, <1>1, <2>1
    <2>3. ASSUME NEW u \in Threads PROVE Threadly(u)
      <3>1. CASE u = t
        BY <2>1, <3>1
      <3>2. CASE u # t
        BY <1>0, <1>2, <2>1, <3>2 DEF SameBut
      <3> QED BY <3>1, <3>2
    <2> QED BY <2>2, <2>3
  <1>7. ASSUME NEW t \in Threads, NEW a \in Streams, Stamp(t, a)
        PROVE  /\ \A s \in Streams : Streamly(s)
               /\ \A u \in Threads : Threadly(u)
    <2>1. clock' = clock + 1 /\ block' = block /\ UNCHANGED old
      BY <1>7 DEF Stamp, source
    <2>2. \A s \in Streams : Streamly(s)
      BY <1>0, <1>1, <2>1
    <2>3. ASSUME NEW u \in Threads PROVE Threadly(u)
      <3>1. CASE u = t
        <4>1. time'[t] = clock + 1 /\ arg'[t] = a
          BY <1>7, <2>1 DEF Stamp, IndInv, TypeOK, CallsOK
        <4>2. block'[a].begin < clock + 1
          BY <1>0, <2>1, TimeTypes DEF ClockInv
        <4> QED BY <1>0, <2>1, <3>1, <4>1, <4>2
      <3>2. CASE u # t
        <4>1. pc'[u] = pc[u] /\ arg'[u] = arg[u] /\ time'[u] = time[u]
          BY <1>7, <3>2 DEF Stamp, IndInv, TypeOK, CallsOK
        <4>2. clock' \in Nat /\ clock <= clock'
          BY <1>0, <2>1
        <4>3. pc[u] = "push" => (arg[u] \in Traced => block'[arg[u]].begin = block[arg[u]].begin)
          BY <2>1
        <4> QED BY <1>2, <4>1, <4>2, <4>3
      <3> QED BY <3>1, <3>2
    <2> QED BY <2>2, <2>3
  <1>8. ASSUME NEW t \in Threads, InitThreadStream(t)
        PROVE  /\ \A s \in Streams : Streamly(s)
               /\ \A u \in Threads : Threadly(u)
    <2>1. clock' = clock + 1 /\ t \in Traced \ thread_streams /\ UNCHANGED <<pc, arg, time>>
      BY <1>8 DEF InitThreadStream, calls
    <2>2. /\ block'[t].begin = clock + 1 /\ block'[t].events = block[t].events
          /\ \A r \in Streams \ {t} : block'[r] = block[r]
      BY <1>8, <2>1 DEF InitThreadStream, IndInv, TypeOK, SourceOK, Block
    <2>3. block[t].events = <<>>
      BY <2>1, UnusedBlock DEF UnusedInv
    <2>4. ASSUME NEW s \in Streams PROVE Streamly(s)
      <3>1. CASE s = t
        BY <1>0, <2>1, <2>2, <2>3, <3>1
      <3>2. CASE s # t
        BY <1>0, <1>1, <2>1, <2>2, <3>2
      <3> QED BY <3>1, <3>2
    <2>5. ASSUME NEW u \in Threads PROVE Threadly(u)
      <3>1. pc[u] = "push" => (arg[u] \in Traced => block'[arg[u]].begin = block[arg[u]].begin)
        BY <2>1, <2>2 DEF UnusedInv
      <3> QED BY <1>0, <1>2, <2>1, <3>1
    <2> QED BY <2>4, <2>5
  <1>9. ASSUME UNCHANGED <<clock, block, time>>,
               \A u \in Threads : \/ pc'[u] = pc[u] /\ arg'[u] = arg[u]
                                  \/ pc'[u] = "flush"
        PROVE  /\ \A s \in Streams : Streamly(s)
               /\ \A u \in Threads : Threadly(u)
    <2>1. \A s \in Streams : Streamly(s)
      BY <1>0, <1>1, <1>9
    <2>2. ASSUME NEW u \in Threads PROVE Threadly(u)
      <3>1. CASE pc'[u] = "flush"
        BY <3>1
      <3>2. CASE pc'[u] = pc[u] /\ arg'[u] = arg[u]
        BY <1>0, <1>2, <1>9, <3>2
      <3> QED BY <1>9, <3>1, <3>2
    <2> QED BY <2>1, <2>2
  <1>10. ASSUME Other,
                ~ \E t \in Threads : InitThreadStream(t) \/ \E s \in Streams : Stamp(t, s)
         PROVE  /\ UNCHANGED <<clock, block, time>>
                /\ \A u \in Threads : \/ pc'[u] = pc[u] /\ arg'[u] = arg[u]
                                      \/ pc'[u] = "flush"
    BY <1>10
    DEF Other, Record, DropThreadGuard, Tick, TickStep, TickFlush, TickDone, SetFull,
        DropTelemetryGuard, ShutdownTelemetry, ShutdownStep, ShutdownFlush,
        ShutdownDispatch, CallFlush, vars, source, calls, IndInv, TypeOK, CallsOK
  <1> QED
    <2>1. CASE Other
      <3>1. CASE \E t \in Threads : InitThreadStream(t) \/ \E s \in Streams : Stamp(t, s)
        BY <1>7, <1>8, <3>1
      <3>2. CASE ~ \E t \in Threads : InitThreadStream(t) \/ \E s \in Streams : Stamp(t, s)
        BY <1>9, <1>10, <2>1, <3>2
      <3> QED BY <3>1, <3>2
    <2> QED BY <1>3, <1>4, <1>5, <1>6, <2>1, Steps

LEMMA UnusedInvNext ==
    ASSUME IndInv, UnusedInv, [Next]_vars
    PROVE  UnusedInv'
  <1> USE Names
  <1> SUFFICES ASSUME NEW s \in Traced, s \notin thread_streams'
               PROVE  /\ pushed'[s] = <<>> /\ sent'[s] = <<>>
                      /\ \A t \in Threads : pc'[t] # "idle" => arg'[t] # s
    BY DEF UnusedInv
  <1>1. s \in Streams /\ (s \notin thread_streams =>
          /\ pushed[s] = <<>> /\ sent[s] = <<>>
          /\ \A t \in Threads : pc[t] # "idle" => arg[t] # s)
    BY DEF UnusedInv
  <1>2. ASSUME NEW t \in Threads, NEW n \in Positive, PushEffect(t, n)
        PROVE  /\ pushed'[s] = <<>> /\ sent'[s] = <<>>
               /\ \A u \in Threads : pc'[u] # "idle" => arg'[u] # s
    BY <1>1, <1>2 DEF PushEffect, SameBut
  <1>3. ASSUME NEW t \in Threads, EmptyEffect(t)
        PROVE  /\ pushed'[s] = <<>> /\ sent'[s] = <<>>
               /\ \A u \in Threads : pc'[u] # "idle" => arg'[u] # s
    BY <1>1, <1>3 DEF EmptyEffect, SameBut
  <1>4. ASSUME NEW t \in Threads, ReplaceEffect(t)
        PROVE  /\ pushed'[s] = <<>> /\ sent'[s] = <<>>
               /\ \A u \in Threads : pc'[u] # "idle" => arg'[u] # s
    BY <1>1, <1>4 DEF ReplaceEffect, SameBut
  <1>5. ASSUME NEW t \in Threads, ProcessEffect(t)
        PROVE  /\ pushed'[s] = <<>> /\ sent'[s] = <<>>
               /\ \A u \in Threads : pc'[u] # "idle" => arg'[u] # s
    BY <1>1, <1>5 DEF ProcessEffect, SameBut, InSink
  <1>6. ASSUME Other
        PROVE  /\ pushed'[s] = <<>> /\ sent'[s] = <<>>
               /\ \A u \in Threads : pc'[u] # "idle" => arg'[u] # s
    <2>1. OtherEffect
      BY <1>6, OtherDoes
    <2>2. pushed'[s] = <<>> /\ sent'[s] = <<>> /\ s \notin thread_streams
      BY <1>1, <2>1 DEF OtherEffect
    <2>3. ASSUME NEW u \in Threads, pc'[u] # "idle"
          PROVE  \/ pc[u] # "idle" /\ arg'[u] = arg[u]
                 \/ arg'[u] \in Shared
                 \/ arg'[u] \in thread_streams'
      BY <1>6, <2>3
      DEF Other, Record, Stamp, Records, InitThreadStream, DropThreadGuard, Tick, TickStep,
          TickFlush, TickTarget, TickDone, SetFull, DropTelemetryGuard, ShutdownTelemetry,
          ShutdownStep, ShutdownFlush, ShutdownDispatch, CallFlush, vars, control, calls,
          IndInv, TypeOK, CallsOK
    <2> QED BY <1>1, <2>2, <2>3
  <1> QED BY <1>2, <1>3, <1>4, <1>5, <1>6, Steps

(* The facts about the blocks a step leaves alone. *)
LEMMA OverlapSame ==
    ASSUME NEW s \in Streams, OverlapInv,
           sent'[s] = sent[s], block'[s].begin = block[s].begin,
           \A t \in Threads : (pc'[t] = "sink" /\ arg'[t] = s) = InSink(t, s),
           \A t \in Threads : InSink(t, s) => old'[t] = old[t]
    PROVE  /\ \A t \in Threads : pc'[t] = "sink" /\ arg'[t] = s =>
                 /\ Overlaps(old'[t], block'[s])
                 /\ Within(s, old'[t])
                 /\ sent'[s] # <<>> => Overlaps(sent'[s][Len(sent'[s])], old'[t])
           /\ (\A t \in Threads : ~(pc'[t] = "sink" /\ arg'[t] = s)) /\ sent'[s] # <<>> =>
                 Overlaps(sent'[s][Len(sent'[s])], block'[s])
  BY DEF OverlapInv, Overlaps, LastSent

LEMMA OverlapInvNext ==
    ASSUME IndInv, ClockInv, UnusedInv, OverlapInv, [Next]_vars
    PROVE  OverlapInv'
  <1> USE Names
  <1> DEFINE Sinking(t, s) == pc'[t] = "sink" /\ arg'[t] = s
             Good(s) ==
               /\ \A t \in Threads : Sinking(t, s) =>
                     /\ Overlaps(old'[t], block'[s])
                     /\ Within(s, old'[t])
                     /\ sent'[s] # <<>> => Overlaps(sent'[s][Len(sent'[s])], old'[t])
               /\ (\A t \in Threads : ~Sinking(t, s)) /\ sent'[s] # <<>> =>
                     Overlaps(sent'[s][Len(sent'[s])], block'[s])
  <1> SUFFICES ASSUME NEW s \in Streams PROVE Good(s)
    BY Zenon DEF OverlapInv, InSink, LastSent
  <1>0. clock \in Nat /\ block[s].begin \in Nat /\ block[s].begin <= clock
    BY TimeTypes DEF ClockInv
  (* The step ends and starts no hand-over of s. *)
  <1>1. ASSUME sent'[s] = sent[s], block'[s].begin = block[s].begin,
               \A t \in Threads : Sinking(t, s) = InSink(t, s),
               \A t \in Threads : InSink(t, s) => old'[t] = old[t]
        PROVE  Good(s)
    BY <1>1, OverlapSame
  <1>2. ASSUME NEW t \in Threads, NEW n \in Positive, PushEffect(t, n) PROVE Good(s)
    <2>1. sent'[s] = sent[s] /\ block'[s].begin = block[s].begin /\ old' = old
      BY <1>2 DEF PushEffect
    <2>2. \A u \in Threads : Sinking(u, s) = InSink(u, s)
      BY <1>2 DEF PushEffect, SameBut, InSink
    <2> QED BY <1>1, <2>1, <2>2
  <1>3. ASSUME NEW t \in Threads, EmptyEffect(t) PROVE Good(s)
    <2>1. sent'[s] = sent[s] /\ block'[s].begin = block[s].begin /\ old' = old
      BY <1>3 DEF EmptyEffect
    <2>2. \A u \in Threads : Sinking(u, s) = InSink(u, s)
      BY <1>3 DEF EmptyEffect, SameBut, InSink
    <2> QED BY <1>1, <2>1, <2>2
  <1>4. ASSUME NEW t \in Threads, ReplaceEffect(t) PROVE Good(s)
    <2>1. CASE s # arg[t]
      <3>1. sent'[s] = sent[s] /\ block'[s].begin = block[s].begin
        BY <1>4, <2>1 DEF ReplaceEffect
      <3>2. \A u \in Threads : Sinking(u, s) = InSink(u, s)
        BY <1>4, <2>1 DEF ReplaceEffect, SameBut, InSink
      <3>3. \A u \in Threads : InSink(u, s) => old'[u] = old[u]
        BY <1>4, <2>1 DEF ReplaceEffect, SameBut, InSink
      <3> QED BY <1>1, <3>1, <3>2, <3>3
    <2>2. CASE s = arg[t]
      <3>1. /\ sent' = sent /\ Sinking(t, s)
            /\ \A u \in Threads : ~InSink(u, s)
            /\ block'[s].begin = clock + 1
            /\ old'[t].begin = block[s].begin
            /\ old'[t].events = block[s].events
            /\ old'[t].end = clock + 2
        BY <1>4, <2>2 DEF ReplaceEffect
      <3>2. \A u \in Threads : Sinking(u, s) => u = t
        BY <1>4, <3>1 DEF ReplaceEffect, SameBut, InSink
      <3>3. Overlaps(old'[t], block'[s])
        BY <1>0, <3>1 DEF Overlaps
      <3>4. Within(s, old'[t])
        <4>1. \A k \in DOMAIN block[s].events :
                 /\ block[s].events[k] \in Nat /\ block[s].events[k] <= clock
                 /\ s \in Traced => block[s].begin < block[s].events[k]
          BY TimeTypes DEF ClockInv
        <4>2. \A k \in DOMAIN block[s].events : block[s].events[k] < clock + 2
          BY <1>0, <4>1
        <4> QED BY <3>1, <4>1, <4>2 DEF Within
      <3>5. sent[s] # <<>> => Overlaps(sent[s][Len(sent[s])], old'[t])
        BY <3>1 DEF OverlapInv, LastSent, Overlaps
      <3> QED BY <3>1, <3>2, <3>3, <3>4, <3>5
    <2> QED BY <2>1, <2>2
  <1>5. ASSUME NEW t \in Threads, ProcessEffect(t) PROVE Good(s)
    <2>1. CASE s # arg[t]
      <3>1. sent'[s] = sent[s] /\ block'[s].begin = block[s].begin
        BY <1>5, <2>1 DEF ProcessEffect
      <3>2. \A u \in Threads : Sinking(u, s) = InSink(u, s)
        BY <1>5, <2>1 DEF ProcessEffect, SameBut, InSink
      <3>3. \A u \in Threads : InSink(u, s) => old'[u] = old[u]
        BY <1>5, <2>1 DEF ProcessEffect, SameBut, InSink
      <3> QED BY <1>1, <3>1, <3>2, <3>3
    <2>2. CASE s = arg[t]
      <3>1. /\ sent'[s] = Append(sent[s], old[t]) /\ block' = block
            /\ InSink(t, s) /\ old[t] \in ClosedBlock
            /\ \A u \in Threads : ~Sinking(u, s)
        BY <1>5, <2>2 DEF ProcessEffect, SameBut, InSink
      <3>2. sent'[s][Len(sent'[s])] = old[t]
        BY <3>1, TimeTypes, AppendBlock
      <3>3. Overlaps(old[t], block[s])
        BY <3>1 DEF OverlapInv
      <3> QED BY <3>1, <3>2, <3>3
    <2> QED BY <2>1, <2>2
  <1>6. ASSUME Other PROVE Good(s)
    <2>1. OtherEffect
      BY <1>6, OtherDoes
    <2>2. \A u \in Threads : Sinking(u, s) = InSink(u, s)
      BY <2>1 DEF OtherEffect, InSink
    <2>3. CASE \E t \in Threads : InitThreadStream(t) /\ s = t
      <3>1. PICK t \in Threads : InitThreadStream(t) /\ s = t
        BY <2>3
      <3>2. s \in Traced \ thread_streams
        BY <3>1 DEF InitThreadStream
      <3>3. sent[s] = <<>> /\ \A u \in Threads : pc[u] # "idle" => arg[u] # s
        BY <3>2 DEF UnusedInv
      <3>4. \A u \in Threads : ~Sinking(u, s)
        BY <2>2, <3>3 DEF InSink
      <3> QED BY <2>1, <3>3, <3>4 DEF OtherEffect
    <2>4. CASE ~ \E t \in Threads : InitThreadStream(t) /\ s = t
      <3>1. block'[s].begin = block[s].begin
        <4>1. ASSUME NEW t \in Threads, InitThreadStream(t)
              PROVE  block'[s] = block[s]
          BY <2>4, <4>1 DEF InitThreadStream, IndInv, TypeOK, SourceOK
        <4>2. CASE ~ \E t \in Threads : InitThreadStream(t)
          BY <1>6, <4>2
          DEF Other, Record, Stamp, DropThreadGuard, Tick, TickStep, TickFlush, TickDone,
              SetFull, DropTelemetryGuard, ShutdownTelemetry, ShutdownStep, ShutdownFlush,
              ShutdownDispatch, vars, source
        <4> QED BY <4>1, <4>2
      <3>2. sent'[s] = sent[s] /\ old' = old
        BY <2>1 DEF OtherEffect
      <3> QED BY <1>1, <2>2, <3>1, <3>2
    <2> QED BY <2>3, <2>4
  <1> QED BY <1>2, <1>3, <1>4, <1>5, <1>6, Steps

LEMMA SentTimesInvNext ==
    ASSUME IndInv, OverlapInv, SentTimesInv, [Next]_vars
    PROVE  SentTimesInv'
  <1> DEFINE Good(s) ==
               /\ \A i \in 1 .. Len(sent'[s]) : Within(s, sent'[s][i])
               /\ \A i \in 1 .. Len(sent'[s]) - 1 : Overlaps(sent'[s][i], sent'[s][i + 1])
  <1> SUFFICES ASSUME NEW s \in Streams PROVE Good(s)
    BY Zenon DEF SentTimesInv
  <1>1. ASSUME sent'[s] = sent[s] PROVE Good(s)
    BY <1>1 DEF SentTimesInv
  <1>2. CASE \E t \in Threads, n \in Positive : PushEffect(t, n)
    BY <1>1, <1>2 DEF PushEffect
  <1>3. CASE \E t \in Threads : EmptyEffect(t)
    BY <1>1, <1>3 DEF EmptyEffect
  <1>4. CASE \E t \in Threads : ReplaceEffect(t)
    BY <1>1, <1>4 DEF ReplaceEffect
  <1>5. CASE Other
    BY <1>1, <1>5, OtherDoes DEF OtherEffect
  <1>6. ASSUME NEW t \in Threads, ProcessEffect(t) PROVE Good(s)
    <2>1. CASE s # arg[t]
      BY <1>1, <1>6, <2>1 DEF ProcessEffect
    <2>2. CASE s = arg[t]
      <3> DEFINE q == sent[s]
                 b == old[t]
      <3>1. sent'[s] = Append(q, b) /\ InSink(t, s) /\ b \in ClosedBlock /\ q \in Seq(ClosedBlock)
        BY <1>6, <2>2, TimeTypes DEF ProcessEffect
      <3>2. /\ Len(q) \in Nat /\ Len(sent'[s]) = Len(q) + 1
            /\ \A i \in 1 .. Len(q) : sent'[s][i] = q[i]
            /\ sent'[s][Len(q) + 1] = b
            /\ q = <<>> <=> Len(q) = 0
        BY <3>1, AppendBlock
      <3>3. Within(s, b) /\ (q # <<>> => Overlaps(q[Len(q)], b))
        BY <3>1 DEF OverlapInv, LastSent
      <3>4. ASSUME NEW i \in 1 .. Len(q) + 1 PROVE Within(s, sent'[s][i])
        <4>1. CASE i \in 1 .. Len(q)
          BY <3>2, <4>1 DEF SentTimesInv
        <4>2. CASE i = Len(q) + 1
          BY <3>2, <3>3, <4>2
        <4> QED BY <3>2, <4>1, <4>2
      <3>5. ASSUME NEW i \in 1 .. Len(q) PROVE Overlaps(sent'[s][i], sent'[s][i + 1])
        <4>1. CASE i = Len(q)
          <5>1. q # <<>> /\ sent'[s][i] = q[Len(q)] /\ sent'[s][i + 1] = b
            BY <3>2, <4>1
          <5> QED BY <3>3, <5>1
        <4>2. CASE i # Len(q)
          <5>1. i \in 1 .. Len(q) - 1 /\ i + 1 \in 1 .. Len(q)
            BY <3>2, <4>2
          <5>2. sent'[s][i] = q[i] /\ sent'[s][i + 1] = q[i + 1]
            BY <3>2, <5>1
          <5> QED BY <5>1, <5>2 DEF SentTimesInv
        <4> QED BY <4>1, <4>2
      <3>6. Len(sent'[s]) - 1 = Len(q)
        BY <3>2
      <3> QED BY <3>2, <3>4, <3>5, <3>6
    <2> QED BY <2>1, <2>2
  <1> QED BY <1>2, <1>3, <1>4, <1>5, <1>6, Steps

(***************************************************************************)
(* The ranges of consecutive blocks overlap because replace_block creates  *)
(* the next block before it closes the last; an event lies in the range of *)
(* its block, in a thread stream for certain, in a shared one at least not *)
(* after its end.  For any number of threads and any schedule.             *)
(***************************************************************************)
THEOREM BlockTimesHold == Spec => []BlockTimes
  <1>1. IndInv /\ TimeInv /\ [Next]_vars => TimeInv'
    BY ClockInvNext, UnusedInvNext, OverlapInvNext, SentTimesInvNext DEF TimeInv
  <1>2. ASSUME IndInv, TimeInv PROVE BlockTimes
    <2> SUFFICES ASSUME NEW s \in Streams, NEW i \in DOMAIN sent[s]
                 PROVE  /\ i < Len(sent[s]) => Overlaps(sent[s][i], sent[s][i + 1])
                        /\ Within(s, sent[s][i])
      BY DEF BlockTimes, Overlaps, Within
    <2>1. Len(sent[s]) \in Nat /\ i \in 1 .. Len(sent[s])
      BY <1>2, TimeTypes
    <2>2. i < Len(sent[s]) => i \in 1 .. Len(sent[s]) - 1
      BY <2>1
    <2> QED BY <1>2, <2>1, <2>2 DEF TimeInv, SentTimesInv
  <1> QED BY <1>1, <1>2, InitTimeInv, Inductive, PTL DEF Spec

-----------------------------------------------------------------------------
(* The marks of the flush monitor. *)

LEMMA InitEmptyInv == Init => EmptyInv
  BY DEF Init, NewBlock, EmptyInv

LEMMA EmptyInvNext ==
    ASSUME IndInv, EmptyInv, [Next]_vars
    PROVE  EmptyInv'
  <1> USE Names
  <1> SUFFICES ASSUME NEW s \in Streams, block'[s].len_bytes = 0
               PROVE  block'[s].events = <<>>
    BY DEF EmptyInv
  <1>1. block[s].len_bytes \in Nat /\ (block[s].len_bytes = 0 => block[s].events = <<>>)
    BY DEF IndInv, TypeOK, SourceOK, Block, EmptyInv
  <1>2. ASSUME NEW t \in Threads, NEW n \in Positive, PushEffect(t, n)
        PROVE  block'[s].events = <<>>
    <2>1. s # arg[t]
      BY <1>1, <1>2 DEF PushEffect
    <2> QED BY <1>1, <1>2, <2>1 DEF PushEffect
  <1>3. CASE \E t \in Threads : EmptyEffect(t)
    BY <1>1, <1>3 DEF EmptyEffect
  <1>4. CASE \E t \in Threads : ReplaceEffect(t)
    BY <1>1, <1>4 DEF ReplaceEffect
  <1>5. CASE \E t \in Threads : ProcessEffect(t)
    BY <1>1, <1>5 DEF ProcessEffect
  <1>6. CASE Other
    BY <1>1, <1>6, OtherDoes DEF OtherEffect
  <1> QED BY <1>2, <1>3, <1>4, <1>5, <1>6, Steps

(* A block that is empty starts where the recorded events end. *)
LEMMA EmptyAtEnd ==
    ASSUME IndInv, EmptyInv, NEW s \in Streams, block[s].len_bytes = 0
    PROVE  block[s].object_offset = Len(pushed[s])
  <1>1. block[s].events = <<>> /\ block[s].object_offset \in Nat
    BY TimeTypes DEF EmptyInv
  <1> QED BY <1>1 DEF IndInv, ChainInv, CurrentInv, next_offset

LEMMA InitMarkInv == Init => MarkInv
  <1> SUFFICES ASSUME Init, NEW t \in Traced
               PROVE  raised[t] = 0 /\ pushed[t] = <<>> /\ block[t].object_offset = 0
    BY DEF MarkInv
  <1> QED BY Names DEF Init, NewBlock

LEMMA MarkInvNext ==
    ASSUME IndInv, EmptyInv, MarkInv, [Next]_vars
    PROVE  MarkInv'
  <1> USE Names
  <1> DEFINE Good(t) ==
               /\ raised'[t] <= Len(pushed'[t])
               /\ \/ raised'[t] <= block'[t].object_offset
                  \/ /\ full_threshold'[t] = 0
                     /\ \/ Len(pushed'[t]) = raised'[t]
                        \/ pc'[t] = "flush" /\ arg'[t] = t
  <1> SUFFICES ASSUME NEW t \in Traced PROVE Good(t)
    BY Zenon DEF MarkInv
  <1>0. /\ t \in Threads /\ t \in Streams
        /\ raised[t] \in Nat /\ Len(pushed[t]) \in Nat /\ block[t].object_offset \in Nat
        /\ raised[t] <= Len(pushed[t])
        /\ \/ raised[t] <= block[t].object_offset
           \/ /\ full_threshold[t] = 0
              /\ \/ Len(pushed[t]) = raised[t]
                 \/ pc[t] = "flush" /\ arg[t] = t
        /\ Len(pushed[t]) = next_offset(block[t])
    <2>1. raised[t] \in Nat
      BY DEF IndInv, TypeOK, HistoryOK
    <2>2. Len(pushed[t]) = next_offset(block[t])
      BY DEF IndInv, ChainInv, CurrentInv
    <2> QED BY <2>1, <2>2, TimeTypes DEF MarkInv
  <1>1. ASSUME UNCHANGED <<raised, pushed, block, full_threshold>>,
               pc[t] = "flush" /\ arg[t] = t => pc'[t] = "flush" /\ arg'[t] = t
        PROVE  Good(t)
    BY <1>0, <1>1
  (* Only the owner is ever inside its stream. *)
  <1>2. ASSUME NEW u \in Threads, arg[u] = t, pc[u] # "idle" PROVE u = t
    BY <1>2 DEF IndInv, CallInv
  <1>3. ASSUME NEW u \in Threads, NEW n \in Positive, PushEffect(u, n) PROVE Good(t)
    <2>1. UNCHANGED <<raised, full_threshold>>
      BY <1>3 DEF PushEffect
    <2>2. CASE arg[u] = t
      <3>1. u = t /\ pc[t] = "push"
        BY <1>2, <1>3, <2>2 DEF PushEffect
      <3>2. /\ pushed'[t] = Append(pushed[t], time[t])
            /\ block'[t].object_offset = block[t].object_offset
            /\ n \in Nat /\ n # 0 /\ block[t].len_bytes \in Nat
        BY <1>0, <1>3, <3>1, <2>2 DEF PushEffect, IndInv, TypeOK, SourceOK, Block
      <3>3. Len(pushed'[t]) = Len(pushed[t]) + 1
        BY <1>0, <3>2, TimeTypes, AppendAt
      <3>4. CASE raised[t] <= block[t].object_offset
        BY <1>0, <2>1, <3>2, <3>3, <3>4
      <3>5. CASE full_threshold[t] = 0
        <4>1. pc'[t] = "flush" /\ arg'[t] = t
          BY <1>3, <2>2, <3>1, <3>2, <3>5 DEF PushEffect
        <4> QED BY <1>0, <2>1, <3>3, <3>5, <4>1
      <3> QED BY <1>0, <3>4, <3>5
    <2>3. CASE arg[u] # t
      <3>1. /\ pushed'[t] = pushed[t] /\ block'[t] = block[t]
            /\ pc[t] = "flush" => pc'[t] = pc[t] /\ arg'[t] = arg[t]
        BY <1>0, <1>3, <2>3 DEF PushEffect, SameBut
      <3> QED BY <1>0, <2>1, <3>1
    <2> QED BY <2>2, <2>3
  <1>4. ASSUME NEW u \in Threads, EmptyEffect(u) PROVE Good(t)
    <2>1. UNCHANGED <<raised, full_threshold, pushed, block>>
      BY <1>4 DEF EmptyEffect
    <2>2. CASE arg[u] = t
      <3>1. block[t].object_offset = Len(pushed[t])
        BY <1>4, <2>2, EmptyAtEnd DEF EmptyEffect
      <3> QED BY <1>0, <2>1, <3>1
    <2>3. CASE arg[u] # t
      <3>1. pc[t] = "flush" /\ arg[t] = t => pc'[t] = pc[t] /\ arg'[t] = arg[t]
        BY <1>0, <1>4, <2>3 DEF EmptyEffect, SameBut
      <3> QED BY <1>1, <2>1, <3>1
    <2> QED BY <2>2, <2>3
  <1>5. ASSUME NEW u \in Threads, ReplaceEffect(u) PROVE Good(t)
    <2>1. UNCHANGED <<raised, pushed>>
      BY <1>5 DEF ReplaceEffect
    <2>2. CASE arg[u] = t
      <3>1. block'[t].object_offset = Len(pushed[t])
        BY <1>0, <1>5, <2>2 DEF ReplaceEffect
      <3> QED BY <1>0, <2>1, <3>1
    <2>3. CASE arg[u] # t
      <3>1. /\ block'[t] = block[t] /\ full_threshold'[t] = full_threshold[t]
            /\ pc[t] = "flush" /\ arg[t] = t => pc'[t] = pc[t] /\ arg'[t] = arg[t]
        BY <1>0, <1>5, <2>3 DEF ReplaceEffect, SameBut
      <3> QED BY <1>0, <2>1, <3>1
    <2> QED BY <2>2, <2>3
  <1>6. ASSUME NEW u \in Threads, ProcessEffect(u) PROVE Good(t)
    <2>1. pc[t] = "flush" /\ arg[t] = t => pc'[t] = pc[t] /\ arg'[t] = arg[t]
      BY <1>0, <1>6 DEF ProcessEffect, SameBut, InSink
    <2> QED BY <1>1, <1>6, <2>1 DEF ProcessEffect
  <1>7. ASSUME Other PROVE Good(t)
    <2>1. OtherEffect
      BY <1>7, OtherDoes
    <2>2. /\ pushed' = pushed /\ block'[t].object_offset = block[t].object_offset
          /\ full_threshold[t] = 0 => full_threshold'[t] = 0
          /\ pc[t] = "flush" /\ arg[t] = t => pc'[t] = "flush" /\ arg'[t] = t
      BY <1>0, <2>1 DEF OtherEffect
    <2>3. \/ raised'[t] = raised[t]
          \/ raised'[t] = Len(pushed[t]) /\ full_threshold'[t] = 0
      <3>1. CASE Tick
        BY <1>0, <3>1 DEF Tick
      <3>2. ASSUME NEW u \in Traced, SetFull(u)
            PROVE  \/ raised'[t] = raised[t]
                   \/ raised'[t] = Len(pushed[t]) /\ full_threshold'[t] = 0
        BY <1>0, <3>2 DEF SetFull, SetFullValue, IndInv, TypeOK, SourceOK, HistoryOK
      <3>3. CASE ~Tick /\ ~ \E u \in Traced : SetFull(u)
        BY <1>7, <3>3
        DEF Other, Record, Stamp, InitThreadStream, DropThreadGuard, TickStep, TickFlush,
            TickDone, DropTelemetryGuard, ShutdownTelemetry, ShutdownStep, ShutdownFlush,
            ShutdownDispatch, vars, history
      <3> QED BY <3>1, <3>2, <3>3
    <2> QED BY <1>0, <2>2, <2>3
  <1> QED BY <1>3, <1>4, <1>5, <1>6, <1>7, Steps

(***************************************************************************)
(* The mark of the monitor is a store that races with its reader, yet no   *)
(* schedule makes it go unnoticed: a thread that has recorded an event     *)
(* since the mark and is out of the call has cut a block behind everything *)
(* that was there.                                                         *)
(***************************************************************************)
THEOREM SetFullHolds == Spec => []SetFullHonoured
  <1>1. Init => EmptyInv /\ MarkInv
    BY InitEmptyInv, InitMarkInv
  <1>2. IndInv /\ EmptyInv /\ MarkInv /\ [Next]_vars => EmptyInv' /\ MarkInv'
    BY EmptyInvNext, MarkInvNext
  <1>3. ASSUME IndInv, MarkInv PROVE SetFullHonoured
    <2> SUFFICES ASSUME NEW t \in thread_streams, pc[t] = "idle", Len(pushed[t]) > raised[t]
                 PROVE  block[t].object_offset >= raised[t]
      BY DEF SetFullHonoured
    <2>1. t \in Traced /\ t \in Streams
      BY <1>3, Names DEF IndInv, TypeOK, ControlOK
    <2>2. Len(pushed[t]) \in Nat /\ raised[t] \in Nat /\ block[t].object_offset \in Nat
      BY <1>3, <2>1, TimeTypes DEF IndInv, TypeOK, HistoryOK
    <2>3. raised[t] <= block[t].object_offset
      BY <1>3, <2>1, <2>2 DEF MarkInv
    <2> QED BY <2>2, <2>3
  <1> QED BY <1>1, <1>2, <1>3, Inductive, PTL DEF Spec

-----------------------------------------------------------------------------
(* The shutdown. *)

LEMMA InitDueInv == Init => DueInv
  <1> SUFFICES ASSUME Init PROVE DueInv
    OBVIOUS
  <1>1. \A s \in Streams : /\ pushed[s] = <<>> /\ sent[s] = <<>>
                           /\ due[s] = 0 /\ delivered[s] = 0
    BY DEF Init
  <1>2. down = "run" /\ sink = "real"
    BY DEF Init
  <1> QED BY <1>1, <1>2 DEF DueInv, SentEnd

(* What is owed stays paid, or on its way, over a step on the streams. *)
LEMMA DueInvCall ==
    ASSUME IndInv, EmptyInv, DueInv,
           UNCHANGED <<down, sink, due>>,
           \A s \in Streams : Len(pushed'[s]) \in Nat /\ Len(pushed[s]) <= Len(pushed'[s]),
           sink = "real" => \A s \in Streams : delivered'[s] = SentEnd(s)',
           \A s \in Streams : delivered'[s] \in Nat /\ delivered[s] <= delivered'[s],
           \A s \in Streams : down # "done" /\ Paying(s) =>
              delivered'[s] >= due[s] \/ Paying(s)'
    PROVE  DueInv'
  <1>0. \A s \in Streams : due[s] \in Nat /\ delivered[s] \in Nat /\ Len(pushed[s]) \in Nat
    BY TimeTypes DEF IndInv, TypeOK, HistoryOK
  <1>1. \A s \in Streams : Ahead(s)' = Ahead(s)
    BY DEF Ahead
  <1>2. \A s \in Streams : due[s] <= Len(pushed'[s])
    BY <1>0 DEF DueInv
  <1>3. ASSUME NEW s \in Streams
        PROVE  delivered'[s] >= due[s] \/ (down # "done" /\ (Paying(s)' \/ Ahead(s)'))
    <2>1. CASE delivered[s] >= due[s]
      BY <1>0, <2>1
    <2>2. CASE down # "done" /\ (Paying(s) \/ Ahead(s))
      BY <1>1, <2>2
    <2> QED BY <2>1, <2>2 DEF DueInv
  <1> QED BY <1>2, <1>3 DEF DueInv

(* Every step keeps what is owed paid, on its way, or ahead. *)
LEMMA DueInvNext ==
    ASSUME IndInv, IndInv', EmptyInv, DueInv, [Next]_vars
    PROVE  DueInv'
  <1> USE Names
  <1>0. /\ \A s \in Streams : due[s] \in Nat /\ delivered[s] \in Nat /\ Len(pushed[s]) \in Nat
        /\ \A s \in Streams : delivered'[s] \in Nat /\ Len(pushed'[s]) \in Nat
        /\ \A s \in Streams : Len(pushed[s]) = next_offset(block[s])
        /\ \A s \in Streams : due[s] <= Len(pushed[s])
    <2>1. \A s \in Streams : due[s] \in Nat /\ delivered[s] \in Nat /\ pushed[s] \in Seq(Nat)
      BY DEF IndInv, TypeOK, HistoryOK
    <2>2. \A s \in Streams : delivered'[s] \in Nat /\ pushed'[s] \in Seq(Nat)
      BY DEF IndInv, TypeOK, HistoryOK
    <2> QED BY <2>1, <2>2 DEF IndInv, ChainInv, CurrentInv, DueInv
  <1>1. ASSUME NEW t \in Threads, NEW n \in Positive, PushEffect(t, n) PROVE DueInv'
    <2>1. UNCHANGED <<down, sink, due, delivered, sent, old>>
      BY <1>1 DEF PushEffect
    <2>2. \A s \in Streams : Len(pushed[s]) <= Len(pushed'[s])
      <3>1. Len(pushed'[arg[t]]) = Len(pushed[arg[t]]) + 1
        BY <1>1, TimeTypes, AppendAt DEF PushEffect
      <3> QED BY <1>0, <1>1, <3>1 DEF PushEffect
    <2>3. \A s \in Streams : SentEnd(s)' = SentEnd(s)
      BY <2>1 DEF SentEnd
    <2>4. \A s \in Streams : Paying(s) => Paying(s)'
      BY <1>1, <2>1 DEF PushEffect, SameBut, Paying, InSink
    <2>5. sink = "real" => \A s \in Streams : delivered'[s] = SentEnd(s)'
      BY <2>1, <2>3 DEF DueInv
    <2>6. \A s \in Streams : delivered[s] <= delivered'[s]
      BY <1>0, <2>1
    <2> QED BY <1>0, <2>1, <2>2, <2>4, <2>5, <2>6, DueInvCall
  <1>2. ASSUME NEW t \in Threads, EmptyEffect(t) PROVE DueInv'
    <2>1. UNCHANGED <<down, sink, due, delivered, sent, old, pushed>>
      BY <1>2 DEF EmptyEffect
    <2>2. \A s \in Streams : SentEnd(s)' = SentEnd(s)
      BY <2>1 DEF SentEnd
    <2>3. ASSUME NEW s \in Streams, down # "done", Paying(s)
          PROVE  delivered'[s] >= due[s] \/ Paying(s)'
      <3>1. CASE t = Main /\ arg[t] = s
        <4>1. block[s].object_offset = Len(pushed[s])
          BY <1>2, <3>1, EmptyAtEnd DEF EmptyEffect
        <4>2. block[s].object_offset = SentEnd(s)
          BY <1>2, <3>1 DEF EmptyEffect, IndInv, ChainInv, RestInv
        <4>3. delivered[s] = SentEnd(s)
          BY <2>3 DEF DueInv
        <4> QED BY <1>0, <2>1, <4>1, <4>2, <4>3
      <3>2. CASE t # Main
        BY <1>2, <2>1, <2>3, <3>2 DEF EmptyEffect, SameBut, Paying, InSink
      <3>3. CASE t = Main /\ arg[t] # s
        BY <1>2, <2>3, <3>3 DEF EmptyEffect, Paying, InSink
      <3> QED BY <3>1, <3>2, <3>3
    <2>4. sink = "real" => \A s \in Streams : delivered'[s] = SentEnd(s)'
      BY <2>1, <2>2 DEF DueInv
    <2>5. \A s \in Streams : delivered[s] <= delivered'[s] /\ Len(pushed[s]) <= Len(pushed'[s])
      BY <1>0, <2>1
    <2> QED BY <1>0, <2>1, <2>3, <2>4, <2>5, DueInvCall
  <1>3. ASSUME NEW t \in Threads, ReplaceEffect(t) PROVE DueInv'
    <2>1. UNCHANGED <<down, sink, due, delivered, sent, pushed>>
      BY <1>3 DEF ReplaceEffect
    <2>2. \A s \in Streams : SentEnd(s)' = SentEnd(s)
      BY <2>1 DEF SentEnd
    <2>3. ASSUME NEW s \in Streams, down # "done", Paying(s)
          PROVE  delivered'[s] >= due[s] \/ Paying(s)'
      <3>1. CASE t = Main /\ arg[t] = s
        <4>1. /\ pc'[Main] = "sink" /\ arg'[Main] = s
              /\ old'[Main].object_offset = block[s].object_offset
              /\ old'[Main].events = block[s].events
          BY <1>3, <3>1 DEF ReplaceEffect
        <4>2. next_offset(old'[Main]) = Len(pushed[s])
          BY <1>0, <4>1 DEF next_offset
        <4>3. next_offset(old'[Main]) >= due'[s]
          BY <1>0, <2>1, <4>2
        <4> QED BY <4>1, <4>3 DEF Paying, InSink
      <3>2. CASE t # Main
        BY <1>3, <2>1, <2>3, <3>2 DEF ReplaceEffect, SameBut, Paying, InSink
      <3>3. CASE t = Main /\ arg[t] # s
        BY <1>3, <2>3, <3>3 DEF ReplaceEffect, Paying, InSink
      <3> QED BY <3>1, <3>2, <3>3
    <2>4. sink = "real" => \A s \in Streams : delivered'[s] = SentEnd(s)'
      BY <2>1, <2>2 DEF DueInv
    <2>5. \A s \in Streams : delivered[s] <= delivered'[s] /\ Len(pushed[s]) <= Len(pushed'[s])
      BY <1>0, <2>1
    <2> QED BY <1>0, <2>1, <2>3, <2>4, <2>5, DueInvCall
  <1>4. ASSUME NEW t \in Threads, ProcessEffect(t) PROVE DueInv'
    <2> DEFINE a == arg[t]
    <2>1. /\ UNCHANGED <<down, sink, due, pushed>> /\ a \in Streams
          /\ InSink(t, a) /\ old[t] \in ClosedBlock
          /\ sent'[a] = Append(sent[a], old[t])
          /\ delivered'[a] = IF sink = "real" THEN next_offset(old[t]) ELSE delivered[a]
          /\ \A r \in Streams \ {a} : sent'[r] = sent[r] /\ delivered'[r] = delivered[r]
      BY <1>4 DEF ProcessEffect
    <2>2. next_offset(old[t]) \in Nat /\ old[t].object_offset \in Nat
          /\ old[t].object_offset <= next_offset(old[t])
      BY <2>1 DEF ClosedBlock, next_offset
    <2>3. ASSUME NEW s \in Streams, sink = "real" PROVE delivered'[s] = SentEnd(s)'
      <3>1. CASE s = a
        <4>1. sent'[s] # <<>> /\ sent'[s][Len(sent'[s])] = old[t]
          BY <2>1, <3>1, TimeTypes, AppendBlock
        <4>2. SentEnd(s)' = next_offset(old[t])
          BY <4>1 DEF SentEnd, next_offset
        <4> QED BY <2>1, <2>3, <3>1, <4>2
      <3>2. CASE s # a
        BY <2>1, <2>3, <3>2 DEF SentEnd, DueInv
      <3> QED BY <3>1, <3>2
    <2>4. ASSUME NEW s \in Streams PROVE delivered[s] <= delivered'[s]
      <3>1. CASE s = a /\ sink = "real"
        <4>1. delivered[s] = SentEnd(s)
          BY <3>1 DEF DueInv
        <4>2. old[t].object_offset = SentEnd(s)
          BY <2>1, <3>1 DEF IndInv, ChainInv, HandInv
        <4> QED BY <1>0, <2>1, <2>2, <3>1, <4>1, <4>2
      <3>2. CASE ~(s = a /\ sink = "real")
        <4>1. delivered'[s] = delivered[s]
          BY <2>1, <3>2
        <4> QED BY <1>0, <4>1
      <3> QED BY <3>1, <3>2
    <2>5. ASSUME NEW s \in Streams, down # "done", Paying(s)
          PROVE  delivered'[s] >= due[s] \/ Paying(s)'
      <3>1. CASE t = Main
        <4>1. a = s /\ next_offset(old[t]) >= due[s]
          BY <2>1, <2>5, <3>1 DEF Paying, InSink
        <4>2. sink = "real"
          BY <2>5 DEF DueInv
        <4> QED BY <2>1, <4>1, <4>2
      <3>2. CASE t # Main
        BY <1>4, <2>1, <2>5, <3>2 DEF ProcessEffect, SameBut, Paying, InSink
      <3> QED BY <3>1, <3>2
    <2>6. \A s \in Streams : Len(pushed[s]) <= Len(pushed'[s])
      BY <1>0, <2>1
    <2> QED BY <1>0, <2>1, <2>3, <2>4, <2>5, <2>6, DueInvCall
  <1>5. ASSUME Other PROVE DueInv'
    <2>1. OtherEffect
      BY <1>5, OtherDoes
    <2>2. UNCHANGED <<delivered, sent, pushed, old>>
      BY <2>1 DEF OtherEffect
    <2>3. \A s \in Streams : SentEnd(s)' = SentEnd(s)
      BY <2>2 DEF SentEnd
    <2>4. sink = "real" => \A s \in Streams : delivered'[s] = SentEnd(s)'
      BY <2>2, <2>3 DEF DueInv
    <2>5. ASSUME \E S \in SUBSET Streams : Owes(S), down = "run", down' = "log",
                 UNCHANGED sink,
                 \A s \in Streams \ Shared : due'[s] = 0 \/ Paying(s)'
          PROVE  DueInv'
      <3>1. \A s \in Streams : due'[s] \in {0, Len(pushed[s])}
        BY <2>5 DEF Owes
      <3>2. \A s \in Streams : due'[s] <= Len(pushed'[s])
        BY <1>0, <2>2, <3>1
      <3>3. \A s \in Streams : delivered'[s] >= due'[s] \/ Paying(s)' \/ Ahead(s)'
        BY <1>0, <2>5 DEF Ahead
      <3>4. sink = "real" /\ down' # "run" /\ down' # "done"
        BY <2>5 DEF DueInv
      <3> QED BY <2>4, <2>5, <3>2, <3>3, <3>4 DEF DueInv
    <2>6. CASE DropTelemetryGuard
      <3>1. /\ Owes(Shared \cup {Main}) /\ down = "run" /\ down' = "log" /\ UNCHANGED sink
            /\ pc'[Main] = "flush" /\ arg'[Main] = Main /\ Main \in Streams
        BY <2>6 DEF DropTelemetryGuard, CallFlush, IndInv, TypeOK, CallsOK, ControlOK
      <3>2. \A s \in Streams \ Shared : due'[s] = 0 \/ Paying(s)'
        BY <3>1 DEF Owes, Paying
      <3> QED BY <2>5, <3>1, <3>2
    <2>7. CASE ShutdownTelemetry
      <3>1. Owes(Shared) /\ down = "run" /\ down' = "log" /\ UNCHANGED sink
        BY <2>7 DEF ShutdownTelemetry
      <3>2. \A s \in Streams \ Shared : due'[s] = 0
        BY <3>1 DEF Owes
      <3> QED BY <2>5, <3>1, <3>2
    <2>8. CASE ShutdownFlush
      <3> DEFINE a == IF down = "log" THEN Log ELSE Metrics
      <3>1. /\ down \in {"log", "metrics"} /\ UNCHANGED <<sink, due>>
            /\ down' = IF down = "log" THEN "metrics" ELSE "swap"
            /\ pc[Main] = "idle" /\ pc'[Main] = "flush" /\ arg'[Main] = a
        BY <2>8
        DEF ShutdownFlush, AfterShutdownFlush, CallFlush, history, IndInv, TypeOK, CallsOK
      <3>2. ASSUME NEW s \in Streams
            PROVE  delivered'[s] >= due'[s] \/ Paying(s)' \/ Ahead(s)'
        <4>1. delivered[s] >= due[s] \/ Ahead(s)
          BY <3>1 DEF DueInv, Paying, InSink
        <4>2. CASE s = a
          BY <3>1, <4>2 DEF Paying
        <4>3. CASE s # a /\ delivered[s] >= due[s]
          BY <2>2, <3>1, <4>3
        <4>4. CASE s # a /\ Ahead(s)
          BY <3>1, <4>4 DEF Ahead, Shared
        <4> QED BY <4>1, <4>2, <4>3, <4>4
      <3>3. sink = "real" /\ down' # "run" /\ down' # "done"
        BY <3>1 DEF DueInv
      <3> QED BY <1>0, <2>2, <2>4, <3>1, <3>2, <3>3 DEF DueInv
    <2>9. CASE ShutdownDispatch
      <3>1. /\ down = "swap" /\ down' = "done" /\ sink' = "null" /\ due' = due
            /\ pc[Main] = "idle"
        BY <2>9 DEF ShutdownDispatch, history
      <3>2. \A s \in Streams : delivered[s] >= due[s]
        BY <3>1 DEF DueInv, Paying, Ahead, InSink
      <3> QED BY <1>0, <2>2, <3>1, <3>2 DEF DueInv
    <2>10. CASE ~(DropTelemetryGuard \/ ShutdownTelemetry \/ ShutdownStep)
      <3>1. UNCHANGED <<down, sink, due>>
        BY <1>5, <2>10
        DEF Other, Record, Stamp, InitThreadStream, DropThreadGuard, Tick, TickStep,
            TickFlush, TickDone, SetFull, vars, control, history
      <3>2. \A s \in Streams : Paying(s) => Paying(s)'
        BY <2>1, <2>2, <3>1 DEF OtherEffect, Paying, InSink
      <3>3. \A s \in Streams : delivered[s] <= delivered'[s] /\ Len(pushed[s]) <= Len(pushed'[s])
        BY <1>0, <2>2
      <3> QED BY <1>0, <2>4, <3>1, <3>2, <3>3, DueInvCall
    <2> QED BY <2>6, <2>7, <2>8, <2>9, <2>10 DEF ShutdownStep
  <1> QED BY <1>1, <1>2, <1>3, <1>4, <1>5, Steps

(***************************************************************************)
(* The null sink comes after the flushes of the shutdown have reached the  *)
(* real one, for any number of threads that record and flush meanwhile:    *)
(* no event that was recorded before the shutdown began is dropped.        *)
(***************************************************************************)
THEOREM ShutdownFlushesHolds == Spec => []ShutdownFlushes
  <1>1. Init => EmptyInv /\ DueInv
    BY InitEmptyInv, InitDueInv
  <1>2. IndInv /\ IndInv' /\ EmptyInv /\ DueInv /\ [Next]_vars => EmptyInv' /\ DueInv'
    BY EmptyInvNext, DueInvNext
  <1>3. DueInv => ShutdownFlushes
    BY DEF DueInv, ShutdownFlushes
  <1> QED BY <1>1, <1>2, <1>3, Inductive, PTL DEF Spec
=============================================================================
