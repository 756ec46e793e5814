-------------------------- MODULE EventStreamProofs --------------------------
(***************************************************************************)
(* TLAPS proofs about EventStream, for any number of threads, any buffer   *)
(* size and any event sizes: type correctness, and that the blocks handed  *)
(* to the sink partition what was recorded.                                *)
(***************************************************************************)
EXTENDS EventStream, TLAPS

(* What an event may take in the queue: any number of bytes but none. *)
Positive == Nat \ {0}

(* t has cut a block of s and is handing it to the sink. *)
InSink(t, s) == pc[t] = "sink" /\ arg[t] = s

(* Where the next block given to the sink has to start. *)
SentEnd(s) ==
    IF sent[s] = <<>> THEN 0
    ELSE sent[s][Len(sent[s])].object_offset + Len(sent[s][Len(sent[s])].events)

(* Who may be where: a thread stream is touched by its owner only, and a   *)
(* thread that holds a block of a shared stream holds the stream's lock.   *)
CallInv ==
    \A t \in Threads :
        /\ pc[t] # "idle" => arg[t] \in Shared \/ (arg[t] \in Traced /\ arg[t] = t)
        /\ pc[t] = "sink" => old[t] \in ClosedBlock
        /\ pc[t] = "sink" /\ arg[t] \in Shared => lock[arg[t]] = t

(* The current block holds the most recent events. *)
CurrentInv ==
    \A s \in Streams :
        /\ Len(pushed[s]) = next_offset(block[s])
        /\ Holds(pushed[s], block[s])

(* A block on its way to the sink is the one the sink waits for, and the   *)
(* current one comes right after it.                                       *)
HandInv ==
    \A s \in Streams : \A t \in Threads :
        InSink(t, s) => /\ Holds(pushed[s], old[t])
                        /\ old[t].object_offset = SentEnd(s)
                        /\ Follows(old[t], block[s])

(* With no block on its way the sink waits for the current one. *)
RestInv ==
    \A s \in Streams :
        (\A t \in Threads : ~InSink(t, s)) => block[s].object_offset = SentEnd(s)

SentInv ==
    \A s \in Streams :
        /\ sent[s] # <<>> => sent[s][1].object_offset = 0
        /\ \A i \in 1 .. Len(sent[s]) : Holds(pushed[s], sent[s][i])
        /\ \A i \in 1 .. Len(sent[s]) - 1 : Follows(sent[s][i], sent[s][i + 1])

ChainInv == CurrentInv /\ HandInv /\ RestInv /\ SentInv

IndInv == TypeOK /\ CallInv /\ ChainInv

-----------------------------------------------------------------------------

(* What the assumptions say of the names used below. *)
LEMMA Names ==
    /\ Main \in Threads /\ Ticker \in Threads /\ Main # Ticker
    /\ Traced \subseteq Threads
    /\ None \notin Threads /\ None \notin Shared /\ None \notin Streams
    /\ Shared \subseteq Streams /\ Traced \subseteq Streams
    /\ Log \in Shared /\ Metrics \in Shared
    /\ \A s \in Shared : s \notin Threads
    /\ Threshold \in Nat
    /\ \A s \in Streams : \A n \in Sizes[s] : n \in Positive
    /\ \A n \in Positive : n \in Nat /\ n # 0
  <1>1. Threshold \in Nat
    BY StreamAssumption DEF Threshold
  <1>2. \A s \in Streams : \A n \in Sizes[s] : n \in Positive
    BY StreamAssumption DEF Positive
  <1>3. \A n \in Positive : n \in Nat /\ n # 0
    BY DEF Positive
  <1> QED BY <1>1, <1>2, <1>3, StreamAssumption DEF Shared, Streams

(* The blocks the operators build are blocks. *)
LEMMA BlockTypes ==
    /\ \A o, n \in Nat : NewBlock(o, n) \in Block
    /\ \A b \in Block, n \in Nat : Close(b, n) \in ClosedBlock
    /\ \A b \in Block : next_offset(b) \in Nat
    /\ \A b \in Block, e \in Nat, n \in Nat : push(b, e, n) \in Block
  <1>1. \A o, n \in Nat : NewBlock(o, n) \in Block
    <2>1. <<>> \in Seq(Nat)
      OBVIOUS
    <2> QED BY <2>1 DEF NewBlock, Block
  <1>2. \A b \in Block, n \in Nat : Close(b, n) \in ClosedBlock
    BY DEF Block, Close, ClosedBlock
  <1>3. \A b \in Block : next_offset(b) \in Nat
    BY DEF Block, next_offset
  <1>4. ASSUME NEW b \in Block, NEW e \in Nat, NEW n \in Nat
        PROVE  push(b, e, n) \in Block
    <2>1. Append(b.events, e) \in Seq(Nat) /\ b.len_bytes + n \in Nat
      BY DEF Block
    <2>2. Append(b.ends, b.len_bytes + n) \in Seq(Nat)
      BY <2>1 DEF Block
    <2> QED BY <2>1, <2>2 DEF Block, push
  <1> QED BY <1>1, <1>2, <1>3, <1>4

LEMMA AppendAt ==
    ASSUME NEW q \in Seq(Nat), NEW e \in Nat
    PROVE  /\ Append(q, e) \in Seq(Nat)
           /\ Len(Append(q, e)) = Len(q) + 1
           /\ \A i \in 1 .. Len(q) : Append(q, e)[i] = q[i]
           /\ Append(q, e)[Len(q) + 1] = e
  OBVIOUS

(* Recording one more event takes nothing from a block. *)
LEMMA HoldsAppend ==
    ASSUME NEW q \in Seq(Nat), NEW e \in Nat, NEW b \in ClosedBlock, Holds(q, b)
    PROVE  Holds(Append(q, e), b)
  <1>1. b.object_offset \in Nat /\ Len(b.events) \in Nat /\ Len(q) \in Nat
    BY DEF ClosedBlock
  <1>2. b.object_offset + Len(b.events) <= Len(Append(q, e))
    BY <1>1, AppendAt DEF Holds
  <1>3. ASSUME NEW i \in 1 .. Len(b.events)
        PROVE  b.events[i] = Append(q, e)[b.object_offset + i]
    <2>1. b.object_offset + i \in 1 .. Len(q)
      BY <1>1 DEF Holds
    <2> QED BY <2>1, AppendAt DEF Holds
  <1> QED BY <1>2, <1>3 DEF Holds

(* A block that holds the latest event still does with one more in both. *)
LEMMA PushBoth ==
    ASSUME NEW q \in Seq(Nat), NEW e \in Nat, NEW o \in Nat, NEW ev \in Seq(Nat),
           Len(q) = o + Len(ev),
           \A i \in 1 .. Len(ev) : ev[i] = q[o + i]
    PROVE  /\ Len(Append(q, e)) = o + Len(Append(ev, e))
           /\ \A i \in 1 .. Len(Append(ev, e)) : Append(ev, e)[i] = Append(q, e)[o + i]
  <1>1. Len(ev) \in Nat /\ Len(q) \in Nat
    OBVIOUS
  <1>2. Len(Append(ev, e)) = Len(ev) + 1 /\ Len(Append(q, e)) = Len(q) + 1
    BY AppendAt
  <1>3. ASSUME NEW i \in 1 .. Len(ev)
        PROVE  Append(ev, e)[i] = Append(q, e)[o + i]
    <2>1. o + i \in 1 .. Len(q)
      BY <1>1
    <2> QED BY <2>1, AppendAt
  <1>4. Append(ev, e)[Len(ev) + 1] = Append(q, e)[o + (Len(ev) + 1)]
    <2>1. o + (Len(ev) + 1) = Len(q) + 1
      BY <1>1
    <2> QED BY <2>1, AppendAt
  <1> QED BY <1>1, <1>2, <1>3, <1>4

LEMMA HoldsPush ==
    ASSUME NEW q \in Seq(Nat), NEW e \in Nat, NEW b \in Block, NEW n \in Nat,
           Len(q) = next_offset(b), Holds(q, b)
    PROVE  /\ Len(Append(q, e)) = next_offset(push(b, e, n))
           /\ Holds(Append(q, e), push(b, e, n))
  <1>1. b.object_offset \in Nat /\ b.events \in Seq(Nat)
    BY DEF Block
  <1>2. /\ push(b, e, n).object_offset = b.object_offset
        /\ push(b, e, n).events = Append(b.events, e)
    BY DEF push, Block
  <1>3. Len(q) = b.object_offset + Len(b.events)
    BY DEF next_offset
  <1>4. \A i \in 1 .. Len(b.events) : b.events[i] = q[b.object_offset + i]
    BY DEF Holds
  <1>5. /\ Len(Append(q, e)) = b.object_offset + Len(Append(b.events, e))
        /\ \A i \in 1 .. Len(Append(b.events, e)) :
             Append(b.events, e)[i] = Append(q, e)[b.object_offset + i]
    BY <1>1, <1>3, <1>4, PushBoth, Zenon
  <1>6. Len(Append(q, e)) \in Nat
    BY AppendAt
  <1>7. Len(Append(q, e)) <= Len(Append(q, e))
    BY <1>6
  <1> QED BY <1>2, <1>5, <1>7 DEF Holds, next_offset

(* Init establishes the invariant. *)
LEMMA InitIndInv == Init => IndInv
  <1> SUFFICES ASSUME Init PROVE IndInv
    OBVIOUS
  <1> USE Names
  <1>1. NewBlock(0, 0) \in Block
    BY BlockTypes
  <1>2. SourceOK
    BY <1>1 DEF Init, SourceOK
  <1>3. CallsOK
    BY DEF Init, CallsOK
  <1>4. ControlOK
    BY StreamAssumption DEF Init, ControlOK
  <1>5. HistoryOK
    BY DEF Init, HistoryOK
  <1>6. CallInv
    BY DEF Init, CallInv
  <1>7. \A s \in Streams : /\ pushed[s] = <<>> /\ sent[s] = <<>>
                           /\ block[s] = NewBlock(0, 0)
    BY DEF Init
  <1>8. CurrentInv
    BY <1>7 DEF CurrentInv, Holds, next_offset, NewBlock
  <1>9. HandInv
    BY DEF Init, HandInv, InSink
  <1>10. RestInv
    BY <1>7 DEF RestInv, SentEnd, NewBlock
  <1>11. SentInv
    BY <1>7 DEF SentInv
  <1> QED
    BY <1>2, <1>3, <1>4, <1>5, <1>6, <1>8, <1>9, <1>10, <1>11
    DEF Init, IndInv, TypeOK, ChainInv

(* A step that leaves the blocks alone and starts or ends no hand-over     *)
(* keeps the chain.                                                        *)
LEMMA ChainUnchanged ==
    ASSUME TypeOK, ChainInv,
           UNCHANGED <<pushed, sent>>,
           \A s \in Streams : /\ block'[s].object_offset = block[s].object_offset
                              /\ block'[s].events = block[s].events,
           \A t \in Threads : /\ (pc'[t] = "sink") = (pc[t] = "sink")
                              /\ pc[t] = "sink" => arg'[t] = arg[t] /\ old'[t] = old[t]
    PROVE  ChainInv'
  <1>1. CurrentInv'
    BY DEF ChainInv, CurrentInv, Holds, next_offset
  <1>2. \A s \in Streams : SentEnd(s)' = SentEnd(s)
    BY DEF SentEnd
  <1>3. \A t \in Threads, s \in Streams : InSink(t, s)' = InSink(t, s)
    BY DEF InSink
  <1>4. HandInv'
    BY <1>2, <1>3 DEF ChainInv, HandInv, InSink, Holds, Follows
  <1>5. RestInv'
    BY <1>2, <1>3 DEF ChainInv, RestInv
  <1>6. SentInv'
    BY DEF ChainInv, SentInv, Holds, Follows
  <1> QED BY <1>1, <1>4, <1>5, <1>6 DEF ChainInv

-----------------------------------------------------------------------------
(* Every step preserves the invariant: the steps that only move a thread   *)
(* from one call to the next first, then the four that touch a block.      *)

LEMMA StampIndInv ==
    ASSUME IndInv, NEW t \in Threads, NEW s \in Streams, Stamp(t, s)
    PROVE  IndInv'
  <1> USE Names DEF IndInv, TypeOK
  <1>0. clock' \in Nat
    BY DEF Stamp
  <1>1. SourceOK' /\ ControlOK' /\ HistoryOK'
    BY DEF Stamp, source, control, history, SourceOK, ControlOK, HistoryOK
  <1>2. CallsOK'
    BY <1>0 DEF Stamp, CallsOK
  <1>3. CallInv'
    BY DEF Stamp, Free, Records, CallsOK, CallInv, Streams, source
  <1>4. ChainInv'
    <2>1. UNCHANGED <<pushed, sent, block, old>>
      BY DEF Stamp, source, history
    <2>2. \A u \in Threads : /\ (pc'[u] = "sink") = (pc[u] = "sink")
                             /\ pc[u] = "sink" => arg'[u] = arg[u]
      BY DEF Stamp, Free, CallsOK
    <2> QED BY <2>1, <2>2, ChainUnchanged
  <1> QED BY <1>0, <1>1, <1>2, <1>3, <1>4

(* All the steps that call a flush function. *)
LEMMA CallFlushIndInv ==
    ASSUME IndInv, NEW t \in Threads, NEW s \in Streams, CallFlush(t, s),
           s \in Shared \/ s = t,
           UNCHANGED <<clock, source, time, old, pushed, sent>>,
           ControlOK', HistoryOK'
    PROVE  IndInv'
  <1> USE Names DEF IndInv, TypeOK
  <1>1. clock' \in Nat /\ SourceOK'
    BY DEF source, SourceOK
  <1>2. CallsOK'
    BY DEF CallFlush, CallsOK
  <1>3. CallInv'
    BY DEF CallFlush, CallsOK, CallInv, Streams, source
  <1>4. ChainInv'
    <2>1. UNCHANGED <<pushed, sent, block, old>>
      BY DEF source
    <2>2. \A u \in Threads : /\ (pc'[u] = "sink") = (pc[u] = "sink")
                             /\ pc[u] = "sink" => arg'[u] = arg[u]
      BY DEF CallFlush, CallsOK
    <2> QED BY <2>1, <2>2, ChainUnchanged
  <1> QED BY <1>1, <1>2, <1>3, <1>4

(* All the steps of the monitor and of the shutdown that make no call. *)
LEMMA ControlIndInv ==
    ASSUME IndInv, UNCHANGED <<clock, block, lock, calls, pushed, sent>>,
           full_threshold' \in [Streams -> Nat], ControlOK', HistoryOK'
    PROVE  IndInv'
  <1> USE Names DEF IndInv, TypeOK
  <1>1. clock' \in Nat /\ SourceOK'
    BY DEF SourceOK
  <1>2. CallsOK'
    BY DEF calls, CallsOK
  <1>3. CallInv'
    BY DEF calls, CallInv
  <1>4. ChainInv'
    BY ChainUnchanged DEF calls
  <1> QED BY <1>1, <1>2, <1>3, <1>4

LEMMA InitThreadStreamIndInv ==
    ASSUME IndInv, NEW t \in Threads, InitThreadStream(t)
    PROVE  IndInv'
  <1> USE Names DEF IndInv, TypeOK
  <1>0. t \in Streams /\ clock' \in Nat /\ block[t] \in Block
    BY DEF InitThreadStream, SourceOK
  <1>1. [block[t] EXCEPT !.begin = clock'] \in Block
    BY <1>0 DEF Block
  <1>2. SourceOK'
    BY <1>0, <1>1 DEF InitThreadStream, SourceOK
  <1>3. CallsOK' /\ HistoryOK'
    BY DEF InitThreadStream, calls, history, CallsOK, HistoryOK
  <1>4. ControlOK'
    BY DEF InitThreadStream, ControlOK
  <1>5. CallInv'
    BY DEF InitThreadStream, calls, CallInv
  <1>6. ChainInv'
    <2>1. \A s \in Streams : /\ block'[s].object_offset = block[s].object_offset
                             /\ block'[s].events = block[s].events
      BY <1>0 DEF InitThreadStream, SourceOK, Block
    <2>2. UNCHANGED <<pushed, sent, pc, arg, old>>
      BY DEF InitThreadStream, calls, history
    <2> QED BY <2>1, <2>2, ChainUnchanged
  <1> QED BY <1>0, <1>2, <1>3, <1>4, <1>5, <1>6

LEMMA FlushEmptyIndInv ==
    ASSUME IndInv, NEW t \in Threads, FlushEmpty(t)
    PROVE  IndInv'
  <1> USE Names DEF IndInv, TypeOK
  <1>1. clock' \in Nat /\ SourceOK' /\ ControlOK' /\ HistoryOK'
    BY DEF FlushEmpty, source, control, history, SourceOK, ControlOK, HistoryOK
  <1>2. CallsOK'
    BY DEF FlushEmpty, Return, CallsOK
  <1>3. CallInv'
    BY DEF FlushEmpty, Return, CallsOK, CallInv, source
  <1>4. ChainInv'
    <2>1. UNCHANGED <<pushed, sent, block, old>>
      BY DEF FlushEmpty, source, history
    <2>2. \A u \in Threads : /\ (pc'[u] = "sink") = (pc[u] = "sink")
                             /\ pc[u] = "sink" => arg'[u] = arg[u]
      BY DEF FlushEmpty, Return, CallsOK
    <2> QED BY <2>1, <2>2, ChainUnchanged
  <1> QED BY <1>1, <1>2, <1>3, <1>4

(* A thread that may enter a stream finds no block of it on its way. *)
LEMMA NoneInSink ==
    ASSUME TypeOK, CallInv, NEW t \in Threads, pc[t] \in {"push", "flush"},
           Lockable(arg[t])
    PROVE  arg[t] \in Streams /\ \A u \in Threads : ~InSink(u, arg[t])
  <1> USE Names
  <1>1. arg[t] \in Streams
    BY DEF CallInv
  <1>2. ASSUME NEW u \in Threads, InSink(u, arg[t]) PROVE FALSE
    <2>1. CASE arg[t] \in Shared
      BY <1>2, <2>1 DEF CallInv, InSink, Lockable
    <2>2. CASE arg[t] \in Traced /\ arg[t] = t
      BY <1>2, <2>2 DEF CallInv, InSink
    <2> QED BY <2>1, <2>2 DEF CallInv
  <1> QED BY <1>1, <1>2

LEMMA PushIndInv ==
    ASSUME IndInv, NEW t \in Threads, Push(t)
    PROVE  IndInv'
  <1> USE Names DEF IndInv, TypeOK
  <1> DEFINE s == arg[t]
  <1>0. s \in Streams /\ \A u \in Threads : ~InSink(u, s)
    BY NoneInSink DEF Push
  <1>1. PICK n \in Positive : block' = [block EXCEPT ![s] = push(block[s], time[t], n)]
    BY <1>0 DEF Push
  <1>2. block[s] \in Block /\ time[t] \in Nat /\ n \in Nat
    BY <1>0 DEF SourceOK, CallsOK
  <1>3. push(block[s], time[t], n) \in Block
    BY <1>2, BlockTypes
  <1>4. block'[s] = push(block[s], time[t], n) /\ \A r \in Streams : r # s => block'[r] = block[r]
    BY <1>0, <1>1 DEF SourceOK
  <1>5. SourceOK'
    BY <1>0, <1>1, <1>3 DEF Push, SourceOK
  <1>6. pushed'[s] = Append(pushed[s], time[t]) /\ \A r \in Streams : r # s => pushed'[r] = pushed[r]
    BY <1>0 DEF Push, HistoryOK
  <1>7. HistoryOK'
    <2>1. Append(pushed[s], time[t]) \in Seq(Nat)
      BY <1>0, <1>2 DEF HistoryOK
    <2> QED BY <1>0, <2>1 DEF Push, HistoryOK
  <1>8. \/ pc' = [pc EXCEPT ![t] = "flush"] /\ arg' = arg
        \/ pc' = [pc EXCEPT ![t] = "idle"] /\ arg' = [arg EXCEPT ![t] = None]
    BY DEF Push, Return
  <1>9. CallsOK'
    <2>1. time' \in [Threads -> Nat] /\ old' = old
      BY DEF Push, CallsOK
    <2> QED BY <1>8, <2>1 DEF CallsOK
  <1>10. clock' \in Nat /\ ControlOK'
    BY DEF Push, control, ControlOK
  <1>11. CallInv'
    BY <1>8 DEF Push, CallsOK, CallInv
  <1>12. \A u \in Threads : /\ pc[u] = "sink" => pc'[u] = "sink" /\ arg'[u] = arg[u]
                            /\ pc'[u] = "sink" => pc[u] = "sink"
    BY <1>8 DEF Push, CallsOK
  <1>13. \A u \in Threads, r \in Streams : InSink(u, r)' = InSink(u, r)
    BY <1>12 DEF InSink
  <1>14. \A r \in Streams : SentEnd(r)' = SentEnd(r)
    BY DEF Push, SentEnd
  <1>15. ASSUME NEW r \in Streams, NEW b \in ClosedBlock, Holds(pushed[r], b)
         PROVE  Holds(pushed'[r], b)
    <2>1. pushed[r] \in Seq(Nat)
      BY DEF HistoryOK
    <2> QED BY <1>2, <1>6, <1>15, <2>1, HoldsAppend
  <1>16. CurrentInv'
    <2> SUFFICES ASSUME NEW r \in Streams
                 PROVE  Len(pushed'[r]) = next_offset(block'[r]) /\ Holds(pushed'[r], block'[r])
      BY DEF CurrentInv
    <2>1. CASE r # s
      <3>1. Holds(pushed[r], block[r]) /\ block[r] \in Block
        BY DEF ChainInv, CurrentInv, SourceOK
      <3>2. block'[r] = block[r] /\ pushed'[r] = pushed[r]
        BY <1>4, <1>6, <2>1
      <3> QED BY <3>1, <3>2 DEF ChainInv, CurrentInv, Holds
    <2>2. CASE r = s
      <3>1. pushed[s] \in Seq(Nat)
        BY <1>0 DEF HistoryOK
      <3>2. Len(pushed[s]) = next_offset(block[s]) /\ Holds(pushed[s], block[s])
        BY <1>0 DEF ChainInv, CurrentInv
      <3>3. /\ Len(Append(pushed[s], time[t])) = next_offset(push(block[s], time[t], n))
            /\ Holds(Append(pushed[s], time[t]), push(block[s], time[t], n))
        BY <1>2, <3>1, <3>2, HoldsPush, Zenon
      <3> QED BY <1>4, <1>6, <2>2, <3>3
    <2> QED BY <2>1, <2>2
  <1>17. HandInv'
    <2> SUFFICES ASSUME NEW r \in Streams, NEW u \in Threads, InSink(u, r)'
                 PROVE  /\ Holds(pushed'[r], old'[u])
                        /\ old'[u].object_offset = SentEnd(r)'
                        /\ Follows(old'[u], block'[r])
      BY DEF HandInv
    <2>1. InSink(u, r) /\ r # s
      BY <1>0, <1>13
    <2>2. old' = old /\ old[u] \in ClosedBlock
      BY <2>1 DEF Push, CallInv, InSink
    <2>3. Holds(pushed[r], old[u]) /\ old[u].object_offset = SentEnd(r) /\ Follows(old[u], block[r])
      BY <2>1 DEF ChainInv, HandInv
    <2>4. Holds(pushed'[r], old'[u])
      BY <2>1, <2>2, <2>3, <1>6 DEF Holds
    <2> QED BY <1>4, <1>14, <2>1, <2>2, <2>3, <2>4
  <1>18. RestInv'
    <2>1. \A r \in Streams : block'[r].object_offset = block[r].object_offset
      BY <1>2, <1>4 DEF push, Block
    <2> QED BY <1>13, <1>14, <2>1 DEF ChainInv, RestInv
  <1>19. SentInv'
    <2>1. sent' = sent
      BY DEF Push
    <2>2. \A r \in Streams : \A i \in 1 .. Len(sent[r]) : sent[r][i] \in ClosedBlock
      BY DEF HistoryOK
    <2>3. \A r \in Streams : \A i \in 1 .. Len(sent[r]) : Holds(pushed'[r], sent[r][i])
      BY <1>15, <2>1, <2>2 DEF ChainInv, SentInv
    <2> QED BY <2>1, <2>3 DEF ChainInv, SentInv
  <1> QED
    BY <1>5, <1>7, <1>9, <1>10, <1>11, <1>16, <1>17, <1>18, <1>19 DEF ChainInv

LEMMA ReplaceBlockIndInv ==
    ASSUME IndInv, NEW t \in Threads, ReplaceBlock(t)
    PROVE  IndInv'
  <1> USE Names DEF IndInv, TypeOK
  <1> DEFINE s  == arg[t]
             nb == NewBlock(next_offset(block[s]), clock + 1)
             ob == Close(block[s], clock + 2)
  <1>0. s \in Streams /\ \A u \in Threads : ~InSink(u, s)
    BY NoneInSink DEF ReplaceBlock
  <1>1. block[s] \in Block /\ clock + 1 \in Nat /\ clock + 2 \in Nat
    BY <1>0 DEF SourceOK
  <1>2. next_offset(block[s]) \in Nat
    BY <1>1, BlockTypes
  <1>3. nb \in Block /\ ob \in ClosedBlock
    BY <1>1, <1>2, BlockTypes
  <1>4. /\ nb.object_offset = next_offset(block[s]) /\ nb.events = <<>>
        /\ ob.object_offset = block[s].object_offset /\ ob.events = block[s].events
    BY DEF NewBlock, Close
  <1>5. /\ block' = [block EXCEPT ![s] = nb]
        /\ old' = [old EXCEPT ![t] = ob]
        /\ pc' = [pc EXCEPT ![t] = "sink"] /\ arg' = arg
        /\ lock' = [lock EXCEPT ![s] = LockHolder(t, s)]
        /\ clock' = clock + 2 /\ time' = time
        /\ full_threshold' = [full_threshold EXCEPT ![s] = Threshold]
        /\ UNCHANGED <<control, history>>
    BY DEF ReplaceBlock, ReplaceTimes
  <1>6. LockHolder(t, s) \in Threads \cup {None}
    BY DEF LockHolder
  <1> HIDE DEF nb, ob
  <1>7. block'[s] = nb /\ \A r \in Streams : r # s => block'[r] = block[r]
    BY <1>0, <1>5 DEF SourceOK
  <1>8. old'[t] = ob /\ \A u \in Threads : u # t => old'[u] = old[u]
    BY <1>5 DEF CallsOK
  <1>9. pc'[t] = "sink" /\ \A u \in Threads : u # t => pc'[u] = pc[u]
    BY <1>5 DEF CallsOK
  <1>10. SourceOK'
    BY <1>0, <1>3, <1>5, <1>6 DEF SourceOK
  <1>11. CallsOK'
    BY <1>3, <1>5 DEF CallsOK
  <1>12. clock' \in Nat /\ ControlOK' /\ HistoryOK'
    BY <1>1, <1>5 DEF control, history, ControlOK, HistoryOK
  <1>13. CallInv'
    <2> SUFFICES ASSUME NEW u \in Threads
                 PROVE  /\ pc'[u] # "idle" =>
                             arg'[u] \in Shared \/ (arg'[u] \in Traced /\ arg'[u] = u)
                        /\ pc'[u] = "sink" => old'[u] \in ClosedBlock
                        /\ pc'[u] = "sink" /\ arg'[u] \in Shared => lock'[arg'[u]] = u
      BY DEF CallInv
    <2>1. CASE u = t
      <3>1. lock'[s] = LockHolder(t, s)
        BY <1>0, <1>5 DEF SourceOK
      <3> QED
        BY <1>3, <1>5, <1>8, <1>9, <2>1, <3>1 DEF ReplaceBlock, CallInv, LockHolder
    <2>2. CASE u # t
      <3>1. pc[u] = "sink" => arg[u] # s
        BY <1>0 DEF InSink
      <3>2. \A r \in Streams : r # s => lock'[r] = lock[r]
        BY <1>0, <1>5 DEF SourceOK
      <3> QED BY <1>5, <1>8, <1>9, <2>2, <3>1, <3>2 DEF CallInv
    <2> QED BY <2>1, <2>2
  <1>14. pushed' = pushed /\ sent' = sent
    BY <1>5 DEF history
  <1>15. \A r \in Streams : SentEnd(r)' = SentEnd(r)
    BY <1>14 DEF SentEnd
  <1>16. CurrentInv'
    <2>1. Len(pushed[s]) = next_offset(block[s])
      BY <1>0 DEF ChainInv, CurrentInv
    <2>2. next_offset(nb) = next_offset(block[s]) /\ Holds(pushed[s], nb)
      BY <1>2, <1>4, <2>1 DEF next_offset, Holds
    <2> QED BY <1>7, <1>14, <2>1, <2>2 DEF ChainInv, CurrentInv
  <1>17. HandInv'
    <2> SUFFICES ASSUME NEW r \in Streams, NEW u \in Threads, pc'[u] = "sink", arg'[u] = r
                 PROVE  /\ Holds(pushed'[r], old'[u])
                        /\ old'[u].object_offset = SentEnd(r)'
                        /\ Follows(old'[u], block'[r])
      BY DEF HandInv, InSink
    <2>1. CASE u = t
      <3>1. r = s
        BY <1>5, <2>1
      <3>2. Holds(pushed[s], block[s]) /\ block[s].object_offset = SentEnd(s)
        BY <1>0 DEF ChainInv, CurrentInv, RestInv
      <3>3. Holds(pushed[s], ob)
        BY <1>4, <3>2 DEF Holds
      <3>4. Follows(ob, nb)
        BY <1>4 DEF Follows, next_offset
      <3> QED BY <1>4, <1>7, <1>8, <1>14, <1>15, <2>1, <3>1, <3>2, <3>3, <3>4
    <2>2. CASE u # t
      <3>1. InSink(u, r) /\ r # s
        BY <1>0, <1>5, <1>9, <2>2 DEF InSink
      <3>2. Holds(pushed[r], old[u]) /\ old[u].object_offset = SentEnd(r) /\ Follows(old[u], block[r])
        BY <3>1 DEF ChainInv, HandInv
      <3> QED BY <1>7, <1>8, <1>14, <1>15, <2>2, <3>1, <3>2
    <2> QED BY <2>1, <2>2
  <1>18. RestInv'
    <2> SUFFICES ASSUME NEW r \in Streams, \A u \in Threads : ~(pc'[u] = "sink" /\ arg'[u] = r)
                 PROVE  block'[r].object_offset = SentEnd(r)'
      BY DEF RestInv, InSink
    <2>1. r # s
      BY <1>5, <1>9
    <2>2. \A u \in Threads : ~InSink(u, r)
      BY <1>5, <1>9, <2>1 DEF InSink
    <2> QED BY <1>7, <1>15, <2>1, <2>2 DEF ChainInv, RestInv
  <1>19. SentInv'
    BY <1>14 DEF ChainInv, SentInv
  <1> QED
    BY <1>10, <1>11, <1>12, <1>13, <1>16, <1>17, <1>18, <1>19 DEF ChainInv

LEMMA AppendBlock ==
    ASSUME NEW q \in Seq(ClosedBlock), NEW b \in ClosedBlock
    PROVE  /\ Append(q, b) \in Seq(ClosedBlock)
           /\ Append(q, b) # <<>>
           /\ Len(q) \in Nat
           /\ Len(Append(q, b)) = Len(q) + 1
           /\ \A i \in 1 .. Len(q) : Append(q, b)[i] = q[i]
           /\ Append(q, b)[Len(q) + 1] = b
           /\ q = <<>> <=> Len(q) = 0
  OBVIOUS

LEMMA OnProcessBlockIndInv ==
    ASSUME IndInv, NEW t \in Threads, OnProcessBlock(t)
    PROVE  IndInv'
  <1> USE Names DEF IndInv, TypeOK
  <1> DEFINE s == arg[t]
             b == old[t]
             q == sent[s]
  <1>0. /\ s \in Streams /\ b \in ClosedBlock /\ q \in Seq(ClosedBlock)
        /\ InSink(t, s) /\ pc[t] = "sink"
    BY DEF OnProcessBlock, CallInv, InSink, HistoryOK
  <1>1. b.object_offset \in Nat /\ Len(b.events) \in Nat
    BY <1>0 DEF ClosedBlock
  <1>2. /\ sent' = [sent EXCEPT ![s] = Append(q, b)]
        /\ pc' = [pc EXCEPT ![t] = "idle"] /\ arg' = [arg EXCEPT ![t] = None]
        /\ old' = [old EXCEPT ![t] = None]
        /\ lock' = [lock EXCEPT ![s] = None]
        /\ UNCHANGED <<clock, block, full_threshold, time, control, pushed, due, raised>>
    BY DEF OnProcessBlock, Return
  <1>3. delivered' \in [Streams -> Nat]
    <2>1. b.object_offset + Len(b.events) \in Nat
      BY <1>1
    <2> QED BY <1>0, <2>1 DEF OnProcessBlock, HistoryOK
  <1>4. sent'[s] = Append(q, b) /\ \A r \in Streams : r # s => sent'[r] = sent[r]
    BY <1>0, <1>2 DEF HistoryOK
  <1>5. HistoryOK'
    <2>1. Append(q, b) \in Seq(ClosedBlock)
      BY <1>0, AppendBlock
    <2>2. sent' \in [Streams -> Seq(ClosedBlock)]
      BY <1>0, <1>2, <2>1 DEF HistoryOK
    <2> QED BY <1>2, <1>3, <2>2 DEF HistoryOK
  <1>6. SourceOK' /\ CallsOK' /\ clock' \in Nat /\ ControlOK'
    <2>1. SourceOK'
      BY <1>2 DEF SourceOK
    <2>2. CallsOK'
      BY <1>2 DEF CallsOK
    <2> QED BY <1>2, <2>1, <2>2 DEF control, ControlOK
  <1>7. pc'[t] = "idle" /\ \A u \in Threads : u # t => pc'[u] = pc[u] /\ arg'[u] = arg[u] /\ old'[u] = old[u]
    BY <1>2 DEF CallsOK
  (* The lock, or being the owner, makes t the only one in the sink. *)
  <1>8. \A u \in Threads : InSink(u, s) => u = t
    BY <1>0 DEF InSink, CallInv
  <1>9. CallInv'
    <2> SUFFICES ASSUME NEW u \in Threads
                 PROVE  /\ pc'[u] # "idle" =>
                             arg'[u] \in Shared \/ (arg'[u] \in Traced /\ arg'[u] = u)
                        /\ pc'[u] = "sink" => old'[u] \in ClosedBlock
                        /\ pc'[u] = "sink" /\ arg'[u] \in Shared => lock'[arg'[u]] = u
      BY DEF CallInv
    <2>1. CASE u = t
      BY <1>7, <2>1
    <2>2. CASE u # t
      <3>1. pc[u] = "sink" => arg[u] # s
        BY <1>8, <2>2 DEF InSink
      <3>2. \A r \in Streams : r # s => lock'[r] = lock[r]
        BY <1>0, <1>2 DEF SourceOK
      <3> QED BY <1>7, <2>2, <3>1, <3>2 DEF CallInv
    <2> QED BY <2>1, <2>2
  <1>10. CurrentInv'
    BY <1>2 DEF ChainInv, CurrentInv
  <1>11. /\ Holds(pushed[s], b) /\ b.object_offset = SentEnd(s) /\ Follows(b, block[s])
    BY <1>0 DEF ChainInv, HandInv
  <1>12. ASSUME NEW r \in Streams, r = s
         PROVE  SentEnd(r)' = b.object_offset + Len(b.events)
    <2>1. sent'[r] # <<>> /\ sent'[r][Len(sent'[r])] = b
      BY <1>0, <1>4, <1>12, AppendBlock
    <2> QED BY <2>1 DEF SentEnd
  <1>13. \A r \in Streams : r # s => SentEnd(r)' = SentEnd(r)
    BY <1>4 DEF SentEnd
  <1>14. HandInv'
    <2> SUFFICES ASSUME NEW r \in Streams, NEW u \in Threads, pc'[u] = "sink", arg'[u] = r
                 PROVE  /\ Holds(pushed'[r], old'[u])
                        /\ old'[u].object_offset = SentEnd(r)'
                        /\ Follows(old'[u], block'[r])
      BY DEF HandInv, InSink
    <2>1. u # t /\ InSink(u, r) /\ r # s
      BY <1>7, <1>8 DEF InSink
    <2>2. Holds(pushed[r], old[u]) /\ old[u].object_offset = SentEnd(r) /\ Follows(old[u], block[r])
      BY <2>1 DEF ChainInv, HandInv
    <2> QED BY <1>2, <1>7, <1>13, <2>1, <2>2
  <1>15. RestInv'
    <2> SUFFICES ASSUME NEW r \in Streams, \A u \in Threads : ~(pc'[u] = "sink" /\ arg'[u] = r)
                 PROVE  block'[r].object_offset = SentEnd(r)'
      BY DEF RestInv, InSink
    <2>1. CASE r = s
      BY <1>2, <1>11, <1>12, <2>1 DEF Follows
    <2>2. CASE r # s
      <3>1. \A u \in Threads : ~InSink(u, r)
        BY <1>0, <1>7, <2>2 DEF InSink
      <3> QED BY <1>2, <1>13, <2>2, <3>1 DEF ChainInv, RestInv
    <2> QED BY <2>1, <2>2
  <1>16. SentInv'
    <2> SUFFICES ASSUME NEW r \in Streams
                 PROVE  /\ sent'[r] # <<>> => sent'[r][1].object_offset = 0
                        /\ \A i \in 1 .. Len(sent'[r]) : Holds(pushed'[r], sent'[r][i])
                        /\ \A i \in 1 .. Len(sent'[r]) - 1 :
                             Follows(sent'[r][i], sent'[r][i + 1])
      BY DEF SentInv
    <2>1. CASE r # s
      BY <1>2, <1>4, <2>1 DEF ChainInv, SentInv
    <2>2. CASE r = s
      <3>1. /\ Len(q) \in Nat /\ Len(sent'[s]) = Len(q) + 1
            /\ \A i \in 1 .. Len(q) : sent'[s][i] = q[i]
            /\ sent'[s][Len(q) + 1] = b
            /\ q = <<>> <=> Len(q) = 0
        BY <1>0, <1>4, AppendBlock
      <3>2. /\ q # <<>> => q[1].object_offset = 0
            /\ \A i \in 1 .. Len(q) : Holds(pushed[s], q[i])
            /\ \A i \in 1 .. Len(q) - 1 : Follows(q[i], q[i + 1])
        BY <1>0 DEF ChainInv, SentInv
      <3>3. sent'[s][1].object_offset = 0
        <4>1. CASE q = <<>>
          BY <1>11, <3>1, <4>1 DEF SentEnd
        <4>2. CASE q # <<>>
          BY <3>1, <3>2, <4>2
        <4> QED BY <4>1, <4>2
      <3>4. \A i \in 1 .. Len(q) + 1 : Holds(pushed[s], sent'[s][i])
        BY <1>11, <3>1, <3>2
      <3>5. ASSUME NEW i \in 1 .. Len(q) PROVE Follows(sent'[s][i], sent'[s][i + 1])
        <4>1. CASE i = Len(q)
          <5>1. sent'[s][i] = q[Len(q)] /\ sent'[s][i + 1] = b /\ q # <<>>
            BY <3>1, <4>1
          <5>2. b.object_offset = q[Len(q)].object_offset + Len(q[Len(q)].events)
            BY <1>11, <5>1 DEF SentEnd
          <5> QED BY <5>1, <5>2 DEF Follows
        <4>2. CASE i # Len(q)
          <5>1. i \in 1 .. Len(q) - 1 /\ i + 1 \in 1 .. Len(q)
            BY <3>1, <4>2
          <5> QED BY <3>1, <3>2, <5>1
        <4> QED BY <4>1, <4>2
      <3> QED BY <1>2, <2>2, <3>1, <3>3, <3>4, <3>5
    <2> QED BY <2>1, <2>2
  <1> QED
    BY <1>5, <1>6, <1>9, <1>10, <1>14, <1>15, <1>16 DEF ChainInv

-----------------------------------------------------------------------------

LEMMA NextIndInv == IndInv /\ [Next]_vars => IndInv'
  <1> SUFFICES ASSUME IndInv, [Next]_vars PROVE IndInv'
    OBVIOUS
  <1> USE Names
  <1>0. /\ clock \in Nat /\ SourceOK /\ CallsOK /\ ControlOK /\ HistoryOK
    BY DEF IndInv, TypeOK
  <1>1. ASSUME NEW t \in Threads, NEW s \in Streams, Stamp(t, s) PROVE IndInv'
    BY <1>1, StampIndInv
  <1>2. ASSUME NEW t \in Threads, InitThreadStream(t) PROVE IndInv'
    BY <1>2, InitThreadStreamIndInv
  <1>3. ASSUME NEW t \in Threads, DropThreadGuard(t) PROVE IndInv'
    <2>1. t \in Streams
      BY <1>0, <1>3 DEF DropThreadGuard, ControlOK
    <2>2. ControlOK' /\ HistoryOK'
      BY <1>0, <1>3 DEF DropThreadGuard, control, history, ControlOK, HistoryOK
    <2>3. CallFlush(t, t) /\ UNCHANGED <<clock, source, time, old, pushed, sent>>
      BY <1>3 DEF DropThreadGuard, history
    <2> QED BY <2>1, <2>2, <2>3, CallFlushIndInv
  <1>4. ASSUME NEW t \in Threads, Push(t) PROVE IndInv'
    BY <1>4, PushIndInv
  <1>5. ASSUME NEW t \in Threads, FlushEmpty(t) PROVE IndInv'
    BY <1>5, FlushEmptyIndInv
  <1>6. ASSUME NEW t \in Threads, ReplaceBlock(t) PROVE IndInv'
    BY <1>6, ReplaceBlockIndInv
  <1>7. ASSUME NEW t \in Threads, OnProcessBlock(t) PROVE IndInv'
    BY <1>7, OnProcessBlockIndInv
  <1>8. ASSUME Tick PROVE IndInv'
    <2>1. ControlOK' /\ HistoryOK'
      BY <1>0, <1>8, StreamAssumption DEF Tick, history, ControlOK, HistoryOK
    <2>2. full_threshold' \in [Streams -> Nat]
          /\ UNCHANGED <<clock, block, lock, calls, pushed, sent>>
      BY <1>0, <1>8 DEF Tick, source, history, SourceOK
    <2> QED BY <2>1, <2>2, ControlIndInv
  <1>9. ASSUME TickFlush PROVE IndInv'
    <2>1. ControlOK' /\ HistoryOK'
      BY <1>0, <1>9 DEF TickFlush, history, ControlOK, HistoryOK
    <2>2. TickTarget \in Shared
      BY DEF TickTarget
    <2>3. CallFlush(Ticker, TickTarget) /\ UNCHANGED <<clock, source, time, old, pushed, sent>>
      BY <1>9 DEF TickFlush, history
    <2> QED BY <2>1, <2>2, <2>3, CallFlushIndInv
  <1>10. ASSUME NEW t \in Traced, SetFull(t) PROVE IndInv'
    <2>1. ControlOK'
      BY <1>0, <1>10 DEF SetFull, ControlOK
    <2>2. HistoryOK'
      <3>1. Len(pushed[t]) \in Nat
        BY <1>0 DEF HistoryOK
      <3> QED BY <1>0, <1>10, <3>1 DEF SetFull, HistoryOK
    <2>3. full_threshold' \in [Streams -> Nat]
          /\ UNCHANGED <<clock, block, lock, calls, pushed, sent>>
      BY <1>0, <1>10 DEF SetFull, SetFullValue, SourceOK
    <2> QED BY <2>1, <2>2, <2>3, ControlIndInv
  <1>11. ASSUME TickDone PROVE IndInv'
    <2>1. ControlOK' /\ HistoryOK'
      BY <1>0, <1>11 DEF TickDone, history, ControlOK, HistoryOK
    <2>2. full_threshold' \in [Streams -> Nat]
          /\ UNCHANGED <<clock, block, lock, calls, pushed, sent>>
      BY <1>0, <1>11 DEF TickDone, source, history, SourceOK
    <2> QED BY <2>1, <2>2, ControlIndInv
  <1>12. \A S : Owes(S) => due' \in [Streams -> Nat]
    <2>1. \A s \in Streams : Len(pushed[s]) \in Nat
      BY <1>0 DEF HistoryOK
    <2> QED BY <2>1 DEF Owes
  <1>13. ASSUME DropTelemetryGuard PROVE IndInv'
    <2>1. ControlOK' /\ HistoryOK'
      BY <1>0, <1>12, <1>13 DEF DropTelemetryGuard, ControlOK, HistoryOK
    <2>2. Main \in Streams
      BY <1>0, <1>13 DEF DropTelemetryGuard, ControlOK
    <2>3. CallFlush(Main, Main) /\ UNCHANGED <<clock, source, time, old, pushed, sent>>
      BY <1>13 DEF DropTelemetryGuard
    <2> QED BY <2>1, <2>2, <2>3, CallFlushIndInv
  <1>14. ASSUME ShutdownTelemetry PROVE IndInv'
    <2>1. ControlOK' /\ HistoryOK'
      BY <1>0, <1>12, <1>14 DEF ShutdownTelemetry, ControlOK, HistoryOK
    <2>2. full_threshold' \in [Streams -> Nat]
          /\ UNCHANGED <<clock, block, lock, calls, pushed, sent>>
      BY <1>0, <1>14 DEF ShutdownTelemetry, source, SourceOK
    <2> QED BY <2>1, <2>2, ControlIndInv
  <1>15. ASSUME ShutdownFlush PROVE IndInv'
    <2>1. ControlOK' /\ HistoryOK'
      BY <1>0, <1>15 DEF ShutdownFlush, AfterShutdownFlush, history, ControlOK, HistoryOK
    <2>2. PICK s \in Shared : CallFlush(Main, s)
      BY <1>15 DEF ShutdownFlush
    <2>3. UNCHANGED <<clock, source, time, old, pushed, sent>>
      BY <1>15 DEF ShutdownFlush, history
    <2> QED BY <2>1, <2>2, <2>3, CallFlushIndInv
  <1>16. ASSUME ShutdownDispatch PROVE IndInv'
    <2>1. ControlOK' /\ HistoryOK'
      BY <1>0, <1>16 DEF ShutdownDispatch, history, ControlOK, HistoryOK
    <2>2. full_threshold' \in [Streams -> Nat]
          /\ UNCHANGED <<clock, block, lock, calls, pushed, sent>>
      BY <1>0, <1>16 DEF ShutdownDispatch, source, history, SourceOK
    <2> QED BY <2>1, <2>2, ControlIndInv
  <1>17. ASSUME UNCHANGED vars PROVE IndInv'
    <2>1. ControlOK' /\ HistoryOK'
      BY <1>0, <1>17 DEF vars, control, history, ControlOK, HistoryOK
    <2>2. full_threshold' \in [Streams -> Nat]
          /\ UNCHANGED <<clock, block, lock, calls, pushed, sent>>
      BY <1>0, <1>17 DEF vars, source, history, SourceOK
    <2> QED BY <2>1, <2>2, ControlIndInv
  <1> QED
    BY <1>1, <1>2, <1>3, <1>4, <1>5, <1>6, <1>7, <1>8, <1>9, <1>10, <1>11, <1>13,
       <1>14, <1>15, <1>16, <1>17
    DEF Next, Record, Call, TickStep, ShutdownStep

(* The invariant holds in every reachable state. *)
LEMMA Inductive == Spec => []IndInv
  BY InitIndInv, NextIndInv, PTL DEF Spec

(***************************************************************************)
(* Every variable of the streams stays in its domain, whatever the number  *)
(* of threads, the buffer size and the sizes of the events.                *)
(***************************************************************************)
THEOREM TypeCorrect == Spec => []TypeOK
  <1>1. IndInv => TypeOK
    BY DEF IndInv
  <1> QED BY <1>1, Inductive, PTL

(***************************************************************************)
(* The flush functions of the dispatch lose, repeat and reorder nothing:   *)
(* for any number of recording, flushing and ticking threads the blocks    *)
(* given to the sink, followed by the current one, are the recorded        *)
(* events.                                                                 *)
(***************************************************************************)
THEOREM BlocksPartition == Spec => []BlocksPartitionEvents
  <1>1. ASSUME IndInv PROVE BlocksPartitionEvents
    <2> SUFFICES ASSUME NEW s \in Streams
                 PROVE  /\ Len(sent[s]) > 0 => sent[s][1].object_offset = 0
                        /\ \A i \in 1 .. Len(sent[s]) : Holds(pushed[s], sent[s][i])
                        /\ \A i \in 1 .. Len(sent[s]) - 1 :
                             Follows(sent[s][i], sent[s][i + 1])
                        /\ Holds(pushed[s], block[s])
                        /\ Len(pushed[s]) = block[s].object_offset + Len(block[s].events)
      BY DEF BlocksPartitionEvents
    <2>1. Len(sent[s]) > 0 => sent[s] # <<>>
      OBVIOUS
    <2> QED
      BY <1>1, <2>1 DEF IndInv, ChainInv, CurrentInv, SentInv, next_offset
  <1> QED BY <1>1, Inductive, PTL
=============================================================================
