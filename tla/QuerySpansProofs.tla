-------------------------- MODULE QuerySpansProofs --------------------------
(***************************************************************************)
(* Proofs about QuerySpans, for any scopes, lags, limits, number of events *)
(* and whole number of ticks per nanosecond: the trees that a query builds *)
(* hold the spans of the trace, nested, and no block is left out for any   *)
(* other reason than a gap before it.                                      *)
(*                                                                         *)
(* The trace is related to a history of the spans open after each of its   *)
(* events, and the builder's stack to the part of that history that the    *)
(* parsed events cover.                                                    *)
(***************************************************************************)
EXTENDS QuerySpans, WellFoundedInduction, SequenceTheorems, FiniteSetTheorems, TLAPS

-----------------------------------------------------------------------------
(***************************************************************************)
(* Induction over numbers, and what recursive functions return.            *)
(***************************************************************************)

(* A non-empty set of numbers has a least one. *)
LEMMA Least ==
  ASSUME NEW T \in SUBSET Nat, T # {}
  PROVE  \E x \in T : \A y \in T : x <= y
  <1> DEFINE R == OpToRel(<, Nat)
  <1>1. IsWellFoundedOn(R, Nat)
    BY NatLessThanWellFounded
  <1>2. PICK x \in T : \A y \in T : ~ (<<y, x>> \in R)
    <2> HIDE DEF R
    <2> QED BY <1>1, WFMin
  <1>3. \A y \in T : ~ (y < x)
    BY <1>2 DEF OpToRel
  <1> QED BY <1>3

(* Induction, for a set of numbers in the place of a predicate. *)
LEMMA Induction ==
  ASSUME NEW S, 0 \in S, \A n \in Nat : n \in S => n + 1 \in S
  PROVE  Nat \subseteq S
  <1> SUFFICES ASSUME ~(Nat \subseteq S) PROVE FALSE
    OBVIOUS
  <1> DEFINE T == {n \in Nat : n \notin S}
  <1>1. T \in SUBSET Nat /\ T # {}
    OBVIOUS
  <1>2. PICK x \in T : \A y \in T : x <= y
    BY <1>1, Least
  <1>3. x \in Nat /\ x # 0 /\ x - 1 \in Nat
    BY <1>2
  <1>4. x - 1 \in S
    BY <1>2, <1>3
  <1>5. x \in S
    <2>1. x = (x - 1) + 1
      BY <1>3
    <2> QED BY <1>3, <1>4, <2>1
  <1> QED BY <1>2, <1>5

(* f goes from a by N steps. *)
Repeats(f, N, a, Step) == f[0] = a /\ \A n \in 1 .. N : f[n] = Step[<<n, f[n - 1]>>]

(* A step from one value to the next can be repeated any number of times. *)
LEMMA Recursion ==
  ASSUME NEW A, NEW a \in A, NEW Step \in [Nat \X A -> A]
  PROVE  \A N \in Nat : \E f \in [0 .. N -> A] : Repeats(f, N, a, Step)
  <1> DEFINE S == {N \in Nat : \E f \in [0 .. N -> A] : Repeats(f, N, a, Step)}
  <1>1. 0 \in S
    <2>1. [n \in 0 .. 0 |-> a] \in [0 .. 0 -> A] /\ Repeats([n \in 0 .. 0 |-> a], 0, a, Step)
      BY DEF Repeats
    <2> QED BY <2>1
  <1>2. ASSUME NEW N \in Nat, N \in S PROVE N + 1 \in S
    <2>1. PICK f \in [0 .. N -> A] : Repeats(f, N, a, Step)
      BY <1>2
    <2> DEFINE g == [n \in 0 .. N + 1 |-> IF n = N + 1 THEN Step[<<n, f[N]>>] ELSE f[n]]
    <2>2. g \in [0 .. N + 1 -> A]
      OBVIOUS
    <2>3. g[0] = a
      BY <2>1 DEF Repeats
    <2>4. ASSUME NEW n \in 1 .. N + 1 PROVE g[n] = Step[<<n, g[n - 1]>>]
      <3>1. n - 1 \in 0 .. N /\ g[n - 1] = f[n - 1]
        OBVIOUS
      <3>2. CASE n = N + 1
        BY <3>1, <3>2
      <3>3. CASE n # N + 1
        <4>1. n \in 1 .. N /\ g[n] = f[n]
          BY <3>3
        <4> QED BY <2>1, <3>1, <4>1 DEF Repeats
      <3> QED BY <3>2, <3>3
    <2>5. Repeats(g, N + 1, a, Step)
      BY <2>3, <2>4 DEF Repeats
    <2>6. \E h \in [0 .. N + 1 -> A] : Repeats(h, N + 1, a, Step)
      <3> HIDE DEF g
      <3> QED BY <2>2, <2>5
    <2> QED BY <2>6
  <1>3. Nat \subseteq S
    <2> HIDE DEF S
    <2> QED BY <1>1, <1>2, Induction
  <1> QED BY <1>3

(* find_stream_blocks_in_range returns blocks of the lake. *)
LEMMA FoundIs ==
  ASSUME NEW B, lake \in Seq(B), NEW begin, NEW end
  PROVE  LET found == find_stream_blocks_in_range(begin, end) IN
         /\ found \in Seq(B)
         /\ \A i \in 1 .. Len(found) : \E n \in 1 .. Len(lake) : found[i] = lake[n]
  <1> DEFINE N == Len(lake)
             Next1(n, s) == IF Selected(lake[n], begin, end) THEN Append(s, lake[n]) ELSE s
             L == {lake[n] : n \in 1 .. N}
             A == Seq(L)
             nil == <<>>
             Step == [p \in Nat \X A |-> IF p[1] \in 1 .. N THEN Next1(p[1], p[2]) ELSE p[2]]
             F(g) == [n \in 0 .. N |->
                        IF n = 0 THEN <<>>
                        ELSE IF Selected(lake[n], begin, end) THEN Append(g[n - 1], lake[n])
                        ELSE g[n - 1]]
             First == CHOOSE g : g = F(g)
  <1>1. N \in Nat /\ nil \in A
    OBVIOUS
  <1>2. Step \in [Nat \X A -> A]
    OBVIOUS
  <1>3. PICK f \in [0 .. N -> A] : Repeats(f, N, nil, Step)
    <2> HIDE DEF A, Step, N, nil
    <2> QED BY <1>1, <1>2, Recursion
  <1>4. f = F(f)
    <2>1. ASSUME NEW n \in 0 .. N PROVE f[n] = F(f)[n]
      <3>1. CASE n = 0
        BY <1>3, <3>1 DEF Repeats
      <3>2. CASE n # 0
        <4>1. n \in 1 .. N /\ f[n - 1] \in A
          BY <3>2
        <4>2. f[n] = Step[<<n, f[n - 1]>>] /\ <<n, f[n - 1]>> \in Nat \X A
          <5> HIDE DEF Step, A
          <5> QED BY <1>3, <4>1 DEF Repeats
        <4>3. Step[<<n, f[n - 1]>>] = Next1(n, f[n - 1])
          <5> HIDE DEF Next1, A
          <5> QED BY <4>1, <4>2
        <4> QED BY <3>2, <4>2, <4>3
      <3> QED BY <3>1, <3>2
    <2> QED BY <2>1
  <1>5. First = F(First)
    <2> HIDE DEF F
    <2> QED BY <1>4
  <1>6. find_stream_blocks_in_range(begin, end) = First[N]
    BY DEF find_stream_blocks_in_range
  <1>7. First[N] \in A
    <2> DEFINE S == {n \in Nat : n \in 0 .. N => First[n] \in A}
    <2>1. 0 \in S
      <3>1. First[0] = <<>>
        <4> HIDE DEF First
        <4> QED BY <1>1, <1>5
      <3> HIDE DEF First
      <3> QED BY <3>1
    <2>2. ASSUME NEW n \in Nat, n \in S PROVE n + 1 \in S
      <3> SUFFICES ASSUME n + 1 \in 0 .. N PROVE First[n + 1] \in A
        OBVIOUS
      <3>1. First[n + 1] = IF Selected(lake[n + 1], begin, end) THEN Append(First[n], lake[n + 1])
                           ELSE First[n]
        <4>1. (n + 1) - 1 = n /\ n + 1 # 0
          OBVIOUS
        <4> HIDE DEF First
        <4> QED BY <1>1, <1>5, <4>1
      <3>2. First[n] \in A /\ lake[n + 1] \in L
        BY <2>2
      <3> HIDE DEF First, L
      <3> QED BY <3>1, <3>2
    <2>3. Nat \subseteq S
      <3> HIDE DEF S
      <3> QED BY <2>1, <2>2, Induction
    <2>4. N \in S /\ N \in 0 .. N
      <3> HIDE DEF S, N
      <3> QED BY <1>1, <2>3
    <2> HIDE DEF First, N, A
    <2> QED BY <2>4
  <1>8. L \subseteq B
    OBVIOUS
  <1> HIDE DEF First
  <1>9. First[N] \in Seq(B)
    BY <1>7, <1>8
  <1>10. \A i \in 1 .. Len(First[N]) : First[N][i] \in L
    <2> HIDE DEF L
    <2> QED BY <1>7
  <1> QED BY <1>6, <1>9, <1>10

-----------------------------------------------------------------------------
(***************************************************************************)
(* What is recorded.                                                       *)
(***************************************************************************)

(* What is left of a sequence without its last element. *)
LEMMA FrontIs ==
  ASSUME NEW S, NEW q \in Seq(S), q # <<>>
  PROVE  /\ Len(q) \in Nat \ {0} /\ Last(q) = q[Len(q)] /\ Last(q) \in S
         /\ Front(q) \in Seq(S) /\ Len(Front(q)) = Len(q) - 1
         /\ \A i \in 1 .. Len(q) - 1 : Front(q)[i] = q[i]
  <1>1. Len(q) \in Nat \ {0} /\ \A i \in 1 .. Len(q) : q[i] \in S
    BY LenProperties, ElementOfSeq, EmptySeq
  <1>2. 1 \in Int /\ Len(q) - 1 \in Int /\ \A i \in 1 .. Len(q) - 1 : q[i] \in S
    BY <1>1
  <1> DEFINE n == Len(q) - 1
  <1>3. /\ SubSeq(q, 1, n) \in Seq(S)
        /\ Len(SubSeq(q, 1, n)) = IF 1 <= n THEN n - 1 + 1 ELSE 0
        /\ \A i \in 1 .. n - 1 + 1 : SubSeq(q, 1, n)[i] = q[1 + i - 1]
    BY <1>2, SubSeqProperties
  <1>4. Front(q) = SubSeq(q, 1, n) /\ Last(q) = q[Len(q)]
    BY DEF Front, Last
  <1>5. n \in Nat /\ n = Len(q) - 1
    BY <1>1
  <1> HIDE DEF n
  <1>6. n - 1 + 1 = n /\ \A i \in 1 .. n : 1 + i - 1 = i
    BY <1>5
  <1>7. \A i \in 1 .. n : SubSeq(q, 1, n)[i] = q[i]
    BY <1>3, <1>6
  <1>8. Len(SubSeq(q, 1, n)) = n
    BY <1>3, <1>5
  <1> QED BY <1>1, <1>3, <1>4, <1>5, <1>7, <1>8

(* What the tail of a sequence is. *)
LEMMA TailIs ==
  ASSUME NEW S, NEW q \in Seq(S), q # <<>>
  PROVE  /\ Len(q) \in Nat \ {0} /\ Head(q) = q[1] /\ q[1] \in S
         /\ Tail(q) \in Seq(S) /\ Len(Tail(q)) = Len(q) - 1
         /\ \A i \in 1 .. Len(q) - 1 : Tail(q)[i] = q[i + 1]
  BY HeadTailProperties, LenProperties

(* What appending to a sequence gives. *)
LEMMA AppendIs ==
  ASSUME NEW S, NEW q \in Seq(S), NEW x \in S
  PROVE  /\ Append(q, x) \in Seq(S) /\ Len(Append(q, x)) = Len(q) + 1 /\ Len(q) \in Nat
         /\ \A i \in 1 .. Len(q) : Append(q, x)[i] = q[i]
         /\ Append(q, x)[Len(q) + 1] = x
  BY AppendProperties, LenProperties

(* Ticks are converted in order. *)
LEMMA TicksInOrder ==
  ASSUME NEW x \in Nat, NEW y \in Nat
  PROVE  /\ ticks_to_nanoseconds(x) \in Nat
         /\ x <= y => ticks_to_nanoseconds(x) <= ticks_to_nanoseconds(y)
  <1>1. TicksPerNs \in Nat \ {0}
    BY QueryAssumption
  <1>2. 2 * TicksPerNs \in Nat \ {0} /\ 2 * x + TicksPerNs \in Nat /\ 2 * y + TicksPerNs \in Nat
    BY <1>1
  <1>3. ASSUME NEW K \in Nat \ {0}, NEW a \in Nat, NEW b \in Nat
        PROVE  a \div K \in Nat /\ (a <= b => a \div K <= b \div K)
    OBVIOUS
  <1>4. x <= y => 2 * x + TicksPerNs <= 2 * y + TicksPerNs
    BY <1>1
  <1> QED BY <1>2, <1>3, <1>4 DEF ticks_to_nanoseconds

-----------------------------------------------------------------------------
(***************************************************************************)
(* Types                                                                   *)
(***************************************************************************)

Hashes == Scopes \cup {RootHash}
RowType ==
    [id : Int, parent : Int, depth : Nat, hash : Hashes, begin : Nat, end : Nat]
NodeType ==
    [id : Int, hash : Hashes, begin : Nat, end : Nat, children : Seq(RowType)]
EventType == [kind : {"begin", "end"}, hash : Scopes, time : Nat]
BlockType == [begin_ticks : Nat, end_ticks : Nat, object_offset : Nat, nb_objects : Nat]
QueryType == [begin : Nat, end : Nat, limit : Nat]
RangeType == [begin : Nat, end : Nat, limit : Int]

(* The recorder. *)
RecorderType ==
    /\ clock \in Nat
    /\ open \in Seq(Scopes)
    /\ trace \in Seq(EventType)
    /\ current \in [begin : Nat, object_offset : Nat]
    /\ lake \in Seq(BlockType)

(* The query. *)
QueryTypes ==
    /\ query \in QueryType \cup {None} /\ (qpc # "idle" => query \in QueryType)
    /\ qpc \in {"idle", "group", "parse", "done"}
    /\ todo \in Seq(BlockType)
    /\ blocks_to_process \in Seq(BlockType)
    /\ last_end \in Nat \cup {None}
    /\ pending \in Seq(Seq(Nat))
    /\ rows \in Seq(RowType)

(* The builder. *)
BuilderType ==
    /\ range \in RangeType
    /\ nb_spans \in Nat
    /\ stack \in Seq(NodeType)
    /\ cont \in BOOLEAN
    /\ mismatch \in BOOLEAN

-----------------------------------------------------------------------------
(***************************************************************************)
(* Recording                                                               *)
(***************************************************************************)

(* Time goes on from event to event and from block to block, so that only  *)
(* the block cut next can begin where one ends.                            *)
InOrder(tr, now) ==
    /\ \A i \in 1 .. Len(tr) : tr[i].time <= now
    /\ \A i, j \in 1 .. Len(tr) : i <= j => tr[i].time <= tr[j].time

CurrentFits(c, n, now) == c.object_offset <= n /\ c.begin <= now

BlockFits(b, c, n, now) ==
    /\ b.object_offset + b.nb_objects <= n
    /\ b.begin_ticks <= now /\ b.end_ticks <= now
    /\ b.end_ticks = c.begin => c.object_offset = b.object_offset + b.nb_objects

Follows(a, b) ==
    a.end_ticks = b.begin_ticks => b.object_offset = a.object_offset + a.nb_objects

LakeInv ==
    /\ InOrder(trace, clock)
    /\ CurrentFits(current, Len(trace), clock)
    /\ \A i \in 1 .. Len(lake) : BlockFits(lake[i], current, Len(trace), clock)
    /\ \A i, j \in 1 .. Len(lake) : Follows(lake[i], lake[j])

(* The spans that are open after each event, by the events that began      *)
(* them; 0 is a span from before the stream.                               *)
History(G, tr) ==
    /\ G \in [0 .. Len(tr) -> Seq(Nat)]
    /\ Len(G[0]) <= 1 /\ \A i \in 1 .. Len(G[0]) : G[0][i] = 0
    /\ \A k \in 1 .. Len(tr) :
          /\ tr[k].kind = "begin" => G[k] = Append(G[k - 1], k)
          /\ tr[k].kind = "end" =>
                /\ G[k - 1] # <<>> /\ G[k] = Front(G[k - 1])
                /\ LET i == Last(G[k - 1]) IN i # 0 => i \in 1 .. Len(tr) /\ tr[i].hash = tr[k].hash

(* The open spans are those of the last moment of the history. *)
OpenNow(G, tr, op) ==
    /\ Len(G[Len(tr)]) = Len(op)
    /\ \A i \in 1 .. Len(op) : LET k == G[Len(tr)][i] IN
          k # 0 => k \in 1 .. Len(tr) /\ tr[k].hash = op[i]

HistoryInv == \E G : History(G, trace) /\ OpenNow(G, trace, open)

RecorderInv == RecorderType /\ LakeInv /\ HistoryInv

(* What the types say of the parts. *)
LEMMA EventFields ==
  ASSUME RecorderType
  PROVE  /\ clock \in Nat /\ Len(trace) \in Nat /\ Len(lake) \in Nat
         /\ current.begin \in Nat /\ current.object_offset \in Nat
         /\ \A i \in 1 .. Len(trace) : /\ trace[i] \in EventType /\ trace[i].time \in Nat
                                       /\ trace[i].hash \in Scopes
                                       /\ trace[i].kind \in {"begin", "end"}
         /\ \A i \in 1 .. Len(lake) : /\ lake[i] \in BlockType
                                      /\ lake[i].object_offset \in Nat /\ lake[i].nb_objects \in Nat
                                      /\ lake[i].begin_ticks \in Nat /\ lake[i].end_ticks \in Nat
  <1>1. /\ \A i \in 1 .. Len(trace) : trace[i] \in EventType
        /\ \A i \in 1 .. Len(lake) : lake[i] \in BlockType
        /\ Len(trace) \in Nat /\ Len(lake) \in Nat /\ clock \in Nat
    BY ElementOfSeq, LenProperties DEF RecorderType
  <1>2. current.begin \in Nat /\ current.object_offset \in Nat
    BY DEF RecorderType
  <1>3. \A e \in EventType : e.time \in Nat /\ e.hash \in Scopes /\ e.kind \in {"begin", "end"}
    BY DEF EventType
  <1>4. \A b \in BlockType : /\ b.object_offset \in Nat /\ b.nb_objects \in Nat
                             /\ b.begin_ticks \in Nat /\ b.end_ticks \in Nat
    BY DEF BlockType
  <1> QED BY <1>1, <1>2, <1>3, <1>4

(* What is recorded is in order at the start, also when a span is already  *)
(* open.                                                                   *)
LEMMA RecorderInit == Init => RecorderInv
  <1> SUFFICES ASSUME Init PROVE RecorderInv
    OBVIOUS
  <1>0. /\ clock = 0 /\ trace = <<>> /\ Len(trace) = 0 /\ lake = <<>> /\ Len(lake) = 0
        /\ current.begin = 0 /\ current.object_offset = 0
        /\ current \in [begin : Nat, object_offset : Nat]
        /\ open \in Seq(Scopes) /\ Len(open) <= 1
    <2>1. CASE open = <<>>
      BY <2>1 DEF Init, NewBlock
    <2>2. CASE open # <<>>
      <3>1. PICK h \in Scopes : open = <<h>>
        BY <2>2 DEF Init
      <3> QED BY <3>1 DEF Init, NewBlock
    <2> QED BY <2>1, <2>2
  <1>1. RecorderType
    BY <1>0 DEF RecorderType
  <1>2. LakeInv
    BY <1>0 DEF LakeInv, InOrder, CurrentFits
  <1>3. HistoryInv
    <2> DEFINE G == [k \in 0 .. 0 |-> [i \in 1 .. Len(open) |-> 0]]
    <2>1. trace = <<>> /\ Len(trace) = 0 /\ open \in Seq(Scopes) /\ Len(open) <= 1
      BY <1>0
    <2>2. G[0] \in Seq(Nat) /\ Len(G[0]) = Len(open) /\ \A i \in 1 .. Len(G[0]) : G[0][i] = 0
      BY <2>1
    <2>3. History(G, trace)
      <3>1. G \in [0 .. Len(trace) -> Seq(Nat)]
        BY <2>1, <2>2
      <3> HIDE DEF G
      <3> QED BY <2>1, <2>2, <3>1 DEF History
    <2>4. OpenNow(G, trace, open)
      <3> HIDE DEF G
      <3> QED BY <2>1, <2>2 DEF OpenNow
    <2> QED BY <2>3, <2>4 DEF HistoryInv
  <1> QED BY <1>1, <1>2, <1>3 DEF RecorderInv

(* One more event. *)
LEMMA Recorded ==
  ASSUME RecorderType, NEW kind \in {"begin", "end"}, NEW hash \in Scopes, Record(kind, hash)
  PROVE  LET e == [kind |-> kind, hash |-> hash, time |-> clock + 1] IN
         /\ e \in EventType /\ clock' = clock + 1 /\ clock' \in Nat
         /\ trace' = Append(trace, e) /\ trace' \in Seq(EventType) /\ Len(trace) \in Nat
         /\ Len(trace') = Len(trace) + 1
         /\ \A i \in 1 .. Len(trace) : trace'[i] = trace[i]
         /\ trace'[Len(trace) + 1] = e
         /\ UNCHANGED <<current, lake>>
  <1> DEFINE e == [kind |-> kind, hash |-> hash, time |-> clock + 1]
  <1>1. e \in EventType /\ clock' = clock + 1 /\ clock' \in Nat /\ trace \in Seq(EventType)
    BY DEF Record, RecorderType, EventType
  <1>2. trace' = Append(trace, e) /\ UNCHANGED <<current, lake>>
    BY DEF Record, recorder
  <1> HIDE DEF e
  <1>3. /\ Append(trace, e) \in Seq(EventType) /\ Len(Append(trace, e)) = Len(trace) + 1
        /\ Len(trace) \in Nat
        /\ \A i \in 1 .. Len(trace) : Append(trace, e)[i] = trace[i]
        /\ Append(trace, e)[Len(trace) + 1] = e
    BY <1>1, AppendIs
  <1> QED BY <1>1, <1>2, <1>3 DEF e

(* An event keeps the times in order and the blocks within the trace. *)
LEMMA LakeRecorded ==
  ASSUME RecorderType, LakeInv, NEW kind \in {"begin", "end"}, NEW hash \in Scopes,
         Record(kind, hash)
  PROVE  LakeInv'
  <1>1. /\ clock' = clock + 1 /\ Len(trace') = Len(trace) + 1
        /\ \A i \in 1 .. Len(trace) : trace'[i] = trace[i]
        /\ trace'[Len(trace) + 1] = [kind |-> kind, hash |-> hash, time |-> clock + 1]
        /\ current' = current /\ lake' = lake
    BY Recorded
  <1>2. /\ clock \in Nat /\ Len(trace) \in Nat
        /\ current.object_offset \in Nat /\ current.begin \in Nat
        /\ \A i \in 1 .. Len(trace) : trace[i].time \in Nat
    BY EventFields
  <1>3. InOrder(trace', clock')
    <2>1. trace'[Len(trace) + 1].time = clock + 1
      BY <1>1
    <2>2. \A i \in 1 .. Len(trace') : \/ i \in 1 .. Len(trace) /\ trace'[i] = trace[i]
                                      \/ i = Len(trace) + 1
      BY <1>1, <1>2
    <2>3. ASSUME NEW i \in 1 .. Len(trace') PROVE trace'[i].time <= clock'
      BY <1>1, <1>2, <2>1, <2>2 DEF LakeInv, InOrder
    <2>4. ASSUME NEW i \in 1 .. Len(trace'), NEW j \in 1 .. Len(trace'), i <= j
          PROVE  trace'[i].time <= trace'[j].time
      <3>1. CASE j = Len(trace) + 1
        BY <1>1, <2>1, <2>3, <3>1
      <3>2. CASE j # Len(trace) + 1
        <4>1. i \in 1 .. Len(trace) /\ j \in 1 .. Len(trace)
          BY <1>1, <1>2, <2>2, <2>4, <3>2
        <4> QED BY <1>1, <2>4, <4>1 DEF LakeInv, InOrder
      <3> QED BY <3>1, <3>2
    <2> QED BY <2>3, <2>4 DEF InOrder
  <1>4. CurrentFits(current', Len(trace'), clock')
    BY <1>1, <1>2 DEF LakeInv, CurrentFits
  <1>5. ASSUME NEW i \in 1 .. Len(lake) PROVE BlockFits(lake[i], current', Len(trace'), clock')
    <2>1. BlockFits(lake[i], current, Len(trace), clock)
      BY DEF LakeInv
    <2>2. /\ lake[i].object_offset \in Nat /\ lake[i].nb_objects \in Nat
          /\ lake[i].begin_ticks \in Nat /\ lake[i].end_ticks \in Nat
      BY EventFields
    <2> QED BY <1>1, <1>2, <2>1, <2>2 DEF BlockFits
  <1>6. \A i, j \in 1 .. Len(lake) : Follows(lake[i], lake[j])
    BY DEF LakeInv
  <1> QED BY <1>1, <1>3, <1>4, <1>5, <1>6 DEF LakeInv

(* A block that is cut, delivered or not, begins and ends where its        *)
(* neighbours allow, whatever the lag between the two reads of the clock.  *)
LEMMA LakeCut ==
  ASSUME RecorderType, LakeInv, NEW lag \in Lags, CutBlock(lag)
  PROVE  /\ RecorderType' /\ LakeInv' /\ UNCHANGED <<trace, open>>
  <1> DEFINE b == [begin_ticks |-> current.begin, end_ticks |-> clock',
                   object_offset |-> current.object_offset,
                   nb_objects |-> Len(trace) - current.object_offset]
  <1>1. /\ clock \in Nat /\ lag \in Nat /\ clock' = clock + 1 + lag /\ clock' \in Nat
        /\ Len(trace) \in Nat /\ lake \in Seq(BlockType)
        /\ current.begin \in Nat /\ current.object_offset \in Nat
        /\ current.object_offset <= Len(trace) /\ current.begin <= clock
    BY QueryAssumption DEF CutBlock, RecorderType, LakeInv, CurrentFits
  <1>2. /\ current' = [begin |-> clock + 1, object_offset |-> Len(trace)]
        /\ lake' = Append(lake, b) \/ lake' = lake
        /\ trace' = trace /\ open' = open
    BY DEF CutBlock, NewBlock
  <1>3. b \in BlockType
    BY <1>1 DEF BlockType
  <1>4. /\ b.begin_ticks = current.begin /\ b.end_ticks = clock'
        /\ b.object_offset = current.object_offset
        /\ b.object_offset + b.nb_objects = Len(trace)
    BY <1>1
  <1> HIDE DEF b
  <1>5. /\ Append(lake, b) \in Seq(BlockType) /\ Len(Append(lake, b)) = Len(lake) + 1
        /\ Len(lake) \in Nat
        /\ \A i \in 1 .. Len(lake) : Append(lake, b)[i] = lake[i]
        /\ Append(lake, b)[Len(lake) + 1] = b
    BY <1>1, <1>3, AppendIs
  <1>6. RecorderType'
    BY <1>1, <1>2, <1>5 DEF RecorderType
  <1>7. current'.begin = clock + 1 /\ current'.object_offset = Len(trace)
    BY <1>2
  <1>8. InOrder(trace', clock') /\ CurrentFits(current', Len(trace'), clock')
    <2>1. \A i \in 1 .. Len(trace) : trace[i].time \in Nat
      BY EventFields
    <2>2. InOrder(trace, clock')
      BY <1>1, <2>1 DEF LakeInv, InOrder
    <2> QED BY <1>1, <1>2, <1>7, <2>2 DEF CurrentFits
  <1>9. ASSUME NEW i \in 1 .. Len(lake)
        PROVE  BlockFits(lake[i], current', Len(trace'), clock') /\ lake[i].end_ticks <= clock
               /\ lake[i].begin_ticks <= clock /\ Follows(lake[i], b) /\ ~(b.end_ticks = lake[i].begin_ticks)
    <2>1. BlockFits(lake[i], current, Len(trace), clock)
      BY DEF LakeInv
    <2>2. /\ lake[i].object_offset \in Nat /\ lake[i].nb_objects \in Nat
          /\ lake[i].begin_ticks \in Nat /\ lake[i].end_ticks \in Nat
      BY EventFields
    <2> QED BY <1>1, <1>2, <1>4, <1>7, <2>1, <2>2 DEF BlockFits, Follows
  <1>10. BlockFits(b, current', Len(trace'), clock')
    BY <1>1, <1>2, <1>4, <1>7 DEF BlockFits
  <1>11. \A i, j \in 1 .. Len(lake) : Follows(lake[i], lake[j])
    BY DEF LakeInv
  <1>12. \A i \in 1 .. Len(lake') : \/ i \in 1 .. Len(lake) /\ lake'[i] = lake[i]
                                    \/ lake'[i] = b
    BY <1>2, <1>5
  <1>13. ~(b.end_ticks = b.begin_ticks)
    BY <1>1, <1>4
  <1>14. \A i \in 1 .. Len(lake') : BlockFits(lake'[i], current', Len(trace'), clock')
    BY <1>9, <1>10, <1>12
  <1>15. ASSUME NEW i \in 1 .. Len(lake'), NEW j \in 1 .. Len(lake') PROVE Follows(lake'[i], lake'[j])
    <2>1. CASE i \in 1 .. Len(lake) /\ lake'[i] = lake[i]
      BY <1>9, <1>11, <1>12, <2>1
    <2>2. CASE lake'[i] = b
      <3>1. ~(lake'[i].end_ticks = lake'[j].begin_ticks)
        BY <1>9, <1>12, <1>13, <2>2
      <3> QED BY <3>1 DEF Follows
    <2> QED BY <1>12, <2>1, <2>2
  <1>16. LakeInv'
    BY <1>8, <1>14, <1>15 DEF LakeInv
  <1> QED BY <1>2, <1>6, <1>16

(* q is what is open after the event e. *)
GoesOn(G, tr, e, q) ==
    /\ e.kind = "begin" => q = Append(G[Len(tr)], Len(tr) + 1)
    /\ e.kind = "end" =>
          /\ G[Len(tr)] # <<>> /\ q = Front(G[Len(tr)])
          /\ LET i == Last(G[Len(tr)]) IN i # 0 => i \in 1 .. Len(tr) /\ tr[i].hash = e.hash

Grown(G, n, q) == [k \in 0 .. n + 1 |-> IF k = n + 1 THEN q ELSE G[k]]

(* The history goes on with an event. *)
LEMMA HistoryGrows ==
  ASSUME NEW G, NEW tr \in Seq(EventType), History(G, tr), NEW e \in EventType, NEW q \in Seq(Nat),
         GoesOn(G, tr, e, q)
  PROVE  History(Grown(G, Len(tr), q), Append(tr, e)) /\ Grown(G, Len(tr), q)[Len(tr) + 1] = q
  <1> DEFINE N == Len(tr)
             H == Grown(G, N, q)
             t == Append(tr, e)
  <1>1. /\ N \in Nat /\ Len(t) = N + 1
        /\ \A i \in 1 .. N : t[i] = tr[i]
        /\ t[N + 1] = e
    BY AppendIs
  <1>2. /\ H \in [0 .. N + 1 -> Seq(Nat)] /\ H[N + 1] = q
        /\ \A k \in 0 .. N : H[k] = G[k]
    BY <1>1 DEF History, Grown
  <1> HIDE DEF H, t
  <1>3. Len(H[0]) <= 1 /\ \A i \in 1 .. Len(H[0]) : H[0][i] = 0
    BY <1>1, <1>2 DEF History
  <1>4. ASSUME NEW k \in 1 .. N + 1
        PROVE  /\ t[k].kind = "begin" => H[k] = Append(H[k - 1], k)
               /\ t[k].kind = "end" =>
                     /\ H[k - 1] # <<>> /\ H[k] = Front(H[k - 1])
                     /\ LET i == Last(H[k - 1]) IN i # 0 => i \in 1 .. Len(t) /\ t[i].hash = t[k].hash
    <2>1. H[k - 1] = G[k - 1]
      BY <1>1, <1>2
    <2>2. CASE k = N + 1
      <3>1. G[k - 1] = G[N] /\ t[k] = e /\ H[k] = q
        BY <1>1, <1>2, <2>2
      <3> QED BY <1>1, <2>1, <2>2, <3>1 DEF GoesOn
    <2>3. CASE k # N + 1
      <3>1. k \in 1 .. N /\ H[k] = G[k] /\ t[k] = tr[k]
        <4> HIDE DEF N
        <4>1. k \in 1 .. N /\ k \in 0 .. N
          BY <1>1, <2>3
        <4> QED BY <1>1, <1>2, <4>1
      <3> QED BY <1>1, <2>1, <3>1 DEF History
    <2> QED BY <2>2, <2>3
  <1> QED BY <1>1, <1>2, <1>3, <1>4 DEF History, H, t

(* The begin of a span extends the history by a longer stack. *)
LEMMA BeginSpanKeeps ==
  ASSUME RecorderInv, NEW h \in Scopes, BeginSpan(h)
  PROVE  RecorderInv'
  <1> DEFINE e == [kind |-> "begin", hash |-> h, time |-> clock + 1]
             N == Len(trace)
  <1>1. RecorderType /\ LakeInv /\ Record("begin", h) /\ open' = Append(open, h)
    BY DEF RecorderInv, BeginSpan
  <1>2. /\ e \in EventType /\ clock' \in Nat /\ trace' = Append(trace, e)
        /\ trace' \in Seq(EventType) /\ N \in Nat /\ Len(trace') = N + 1
        /\ \A i \in 1 .. N : trace'[i] = trace[i]
        /\ trace'[N + 1] = e
        /\ UNCHANGED <<current, lake>>
    BY <1>1, Recorded
  <1>3. /\ open' \in Seq(Scopes) /\ Len(open') = Len(open) + 1 /\ Len(open) \in Nat
        /\ \A i \in 1 .. Len(open) : open'[i] = open[i]
        /\ open'[Len(open) + 1] = h
    BY <1>1, AppendIs DEF RecorderType
  <1>4. RecorderType'
    BY <1>1, <1>2, <1>3 DEF RecorderType
  <1>5. LakeInv'
    BY <1>1, LakeRecorded
  <1>6. PICK G : History(G, trace) /\ OpenNow(G, trace, open)
    BY DEF RecorderInv, HistoryInv
  <1> DEFINE q == Append(G[N], N + 1)
             H == Grown(G, N, q)
  <1>7. G[N] \in Seq(Nat)
    BY <1>2, <1>6 DEF History
  <1>8. /\ q \in Seq(Nat) /\ Len(q) = Len(G[N]) + 1
        /\ \A i \in 1 .. Len(G[N]) : q[i] = G[N][i]
        /\ q[Len(G[N]) + 1] = N + 1
    BY <1>2, <1>7, AppendIs
  <1>9. History(H, Append(trace, e)) /\ H[N + 1] = q
    <2>1. e.kind = "begin" /\ e.kind # "end" /\ trace \in Seq(EventType)
      BY <1>1 DEF RecorderType
    <2>2. GoesOn(G, trace, e, q)
      BY <2>1 DEF GoesOn
    <2> HIDE DEF e, q
    <2> QED BY <1>2, <1>6, <1>8, <2>1, <2>2, HistoryGrows
  <1> HIDE DEF H, q
  <1>10. OpenNow(H, trace', open')
    <2>1. Len(G[N]) = Len(open)
      BY <1>6 DEF OpenNow
    <2>2. H[Len(trace')] = q
      BY <1>2, <1>9
    <2>3. ASSUME NEW i \in 1 .. Len(open'), q[i] # 0
          PROVE  q[i] \in 1 .. Len(trace') /\ trace'[q[i]].hash = open'[i]
      <3>1. CASE i = Len(open) + 1
        <4>1. q[i] = N + 1
          BY <1>8, <2>1, <3>1
        <4> QED BY <1>2, <1>3, <3>1, <4>1
      <3>2. CASE i # Len(open) + 1
        <4>1. i \in 1 .. Len(open) /\ q[i] = G[N][i] /\ open'[i] = open[i]
          BY <1>3, <1>8, <2>1, <3>2
        <4>2. q[i] \in 1 .. N /\ trace[q[i]].hash = open[i]
          BY <1>6, <2>3, <4>1 DEF OpenNow
        <4> HIDE DEF N
        <4> QED BY <1>2, <4>1, <4>2
      <3> QED BY <3>1, <3>2
    <2> QED BY <1>3, <1>8, <2>1, <2>2, <2>3 DEF OpenNow
  <1>11. HistoryInv'
    BY <1>2, <1>9, <1>10 DEF HistoryInv
  <1> QED BY <1>4, <1>5, <1>11 DEF RecorderInv

(* The end of a span extends the history by a shorter stack. *)
LEMMA EndSpanKeeps ==
  ASSUME RecorderInv, EndSpan
  PROVE  RecorderInv'
  <1> DEFINE h == Last(open)
             e == [kind |-> "end", hash |-> h, time |-> clock + 1]
             N == Len(trace)
  <1>1. RecorderType /\ LakeInv /\ Record("end", h) /\ open # <<>> /\ open' = Front(open)
        /\ open \in Seq(Scopes) /\ trace \in Seq(EventType)
    BY DEF RecorderInv, EndSpan, RecorderType
  <1>2. /\ h \in Scopes /\ h = open[Len(open)] /\ Len(open) \in Nat \ {0}
        /\ open' \in Seq(Scopes) /\ Len(open') = Len(open) - 1
        /\ \A i \in 1 .. Len(open) - 1 : open'[i] = open[i]
    BY <1>1, FrontIs
  <1> HIDE DEF h
  <1>3. /\ e \in EventType /\ clock' \in Nat /\ trace' = Append(trace, e)
        /\ trace' \in Seq(EventType) /\ N \in Nat /\ Len(trace') = N + 1
        /\ \A i \in 1 .. N : trace'[i] = trace[i]
        /\ UNCHANGED <<current, lake>>
    BY <1>1, <1>2, Recorded
  <1>4. RecorderType'
    BY <1>1, <1>2, <1>3 DEF RecorderType
  <1>5. LakeInv'
    BY <1>1, <1>2, LakeRecorded
  <1>6. PICK G : History(G, trace) /\ OpenNow(G, trace, open)
    BY DEF RecorderInv, HistoryInv
  <1>7. G[N] \in Seq(Nat) /\ Len(G[N]) = Len(open)
    BY <1>3, <1>6 DEF History, OpenNow
  <1> DEFINE q == Front(G[N])
             H == Grown(G, N, q)
  <1>8. /\ G[N] # <<>> /\ q \in Seq(Nat) /\ Len(q) = Len(open) - 1
        /\ \A i \in 1 .. Len(open) - 1 : q[i] = G[N][i]
        /\ Last(G[N]) = G[N][Len(open)]
    <2>1. G[N] # <<>>
      BY <1>2, <1>7
    <2> HIDE DEF N
    <2> QED BY <1>7, <2>1, FrontIs
  <1>9. History(H, Append(trace, e)) /\ H[N + 1] = q
    <2>1. e.kind = "end" /\ e.kind # "begin" /\ e.hash = h
      OBVIOUS
    <2>2. ASSUME Last(G[N]) # 0 PROVE Last(G[N]) \in 1 .. N /\ trace[Last(G[N])].hash = h
      BY <1>2, <1>6, <1>8, <2>2 DEF OpenNow
    <2>3. GoesOn(G, trace, e, q)
      <3> HIDE DEF e
      <3> QED BY <1>8, <2>1, <2>2 DEF GoesOn
    <2> HIDE DEF e, q
    <2> QED BY <1>1, <1>3, <1>6, <1>8, <2>1, <2>3, HistoryGrows
  <1> HIDE DEF H, q
  <1>10. OpenNow(H, trace', open')
    <2>2. H[Len(trace')] = q
      BY <1>3, <1>9
    <2>3. ASSUME NEW i \in 1 .. Len(open'), q[i] # 0
          PROVE  q[i] \in 1 .. Len(trace') /\ trace'[q[i]].hash = open'[i]
      <3>1. i \in 1 .. Len(open) /\ q[i] = G[N][i] /\ open'[i] = open[i]
        BY <1>2, <1>8
      <3>2. q[i] \in 1 .. N /\ trace[q[i]].hash = open[i]
        BY <1>6, <2>3, <3>1 DEF OpenNow
      <3> HIDE DEF N
      <3> QED BY <1>3, <3>1, <3>2
    <2> QED BY <1>2, <1>8, <2>2, <2>3 DEF OpenNow
  <1>11. HistoryInv'
    BY <1>3, <1>9, <1>10 DEF HistoryInv
  <1> QED BY <1>4, <1>5, <1>11 DEF RecorderInv

(* Cutting a block leaves the history alone. *)
LEMMA CutBlockKeeps ==
  ASSUME RecorderInv, NEW lag \in Lags, CutBlock(lag)
  PROVE  RecorderInv'
  <1>1. RecorderType' /\ LakeInv' /\ trace' = trace /\ open' = open
    BY LakeCut DEF RecorderInv
  <1>2. HistoryInv'
    BY <1>1 DEF RecorderInv, HistoryInv
  <1> QED BY <1>1, <1>2 DEF RecorderInv

(* A query leaves the recorder alone. *)
LEMMA QueryKeepsRecorder ==
  ASSUME RecorderInv, UNCHANGED recorder
  PROVE  RecorderInv'
  <1>1. UNCHANGED <<clock, open, trace, current, lake>>
    BY DEF recorder
  <1>2. RecorderType' /\ LakeInv'
    BY <1>1 DEF RecorderInv, RecorderType, LakeInv
  <1>3. HistoryInv'
    BY <1>1 DEF RecorderInv, HistoryInv
  <1> QED BY <1>2, <1>3 DEF RecorderInv

-----------------------------------------------------------------------------
(***************************************************************************)
(* The history of open spans.                                              *)
(***************************************************************************)

(* What is open after the event k, given what is open after n, the one     *)
(* before.                                                                 *)
Stepped(G, tr, n, k) ==
    /\ tr[k].kind \in {"begin", "end"}
    /\ G[k] \in Seq(Nat) /\ Len(G[k]) \in Nat /\ G[n] \in Seq(Nat) /\ Len(G[n]) \in Nat
    /\ tr[k].kind = "begin" =>
         /\ Len(G[k]) = Len(G[n]) + 1
         /\ \A y \in 1 .. Len(G[n]) : G[k][y] = G[n][y]
         /\ G[k][Len(G[k])] = k
    /\ tr[k].kind = "end" =>
         /\ Len(G[n]) # 0 /\ Len(G[k]) = Len(G[n]) - 1
         /\ \A y \in 1 .. Len(G[k]) : G[k][y] = G[n][y]
         /\ Last(G[n]) = G[n][Len(G[n])]

(* One event of a history: a begin pushes its own index, an end pops. *)
LEMMA HistoryStep ==
  ASSUME NEW G, NEW tr \in Seq(EventType), History(G, tr), NEW k \in 1 .. Len(tr)
  PROVE  Stepped(G, tr, k - 1, k)
  <1>1. Len(tr) \in Nat /\ k - 1 \in 0 .. Len(tr) /\ k \in 0 .. Len(tr) /\ k \in Nat
    BY LenProperties
  <1>2. tr[k].kind \in {"begin", "end"}
    <2>1. tr[k] \in EventType
      BY ElementOfSeq
    <2> QED BY <2>1 DEF EventType
  <1>3. G[k] \in Seq(Nat) /\ G[k - 1] \in Seq(Nat)
    BY <1>1 DEF History
  <1>4. CASE tr[k].kind = "begin"
    <2>1. G[k] = Append(G[k - 1], k)
      BY <1>4 DEF History
    <2>2. Len(G[k - 1]) \in Nat
      BY <1>3, LenProperties
    <2>3. /\ Len(G[k]) = Len(G[k - 1]) + 1
          /\ \A y \in 1 .. Len(G[k - 1]) : G[k][y] = G[k - 1][y]
          /\ G[k][Len(G[k - 1]) + 1] = k
      BY <1>1, <1>3, <2>1, AppendIs
    <2> QED BY <1>1, <1>2, <1>3, <1>4, <2>2, <2>3 DEF Stepped
  <1>5. CASE tr[k].kind = "end"
    <2>1. G[k] = Front(G[k - 1]) /\ G[k - 1] # <<>>
      BY <1>5 DEF History
    <2>2. /\ Len(G[k - 1]) \in Nat \ {0} /\ Len(G[k]) = Len(G[k - 1]) - 1
          /\ \A y \in 1 .. Len(G[k - 1]) - 1 : G[k][y] = G[k - 1][y]
          /\ Last(G[k - 1]) = G[k - 1][Len(G[k - 1])]
      BY <1>3, <2>1, FrontIs
    <2>3. Len(G[k]) \in Nat
      BY <1>3, LenProperties
    <2> QED BY <1>1, <1>2, <1>3, <1>5, <2>2, <2>3 DEF Stepped
  <1> QED BY <1>2, <1>4, <1>5

(* What is open began before, at a begin event or before the stream. *)
OpenEntries(G, tr, k) ==
    \A y \in 1 .. Len(G[k]) :
        G[k][y] \in 0 .. k /\ (G[k][y] # 0 => tr[G[k][y]].kind = "begin")

(* What a history holds open: begins that came earlier, in their order. *)
LEMMA HistoryEntries ==
  ASSUME NEW G, NEW tr \in Seq(EventType), History(G, tr)
  PROVE  \A k \in 0 .. Len(tr) : OpenEntries(G, tr, k)
  <1> DEFINE S == {k \in Nat : k <= Len(tr) => OpenEntries(G, tr, k)}
  <1>1. 0 \in S
    BY DEF History, OpenEntries
  <1>2. ASSUME NEW n \in Nat, n \in S PROVE n + 1 \in S
    <2> SUFFICES ASSUME n + 1 <= Len(tr) PROVE OpenEntries(G, tr, n + 1)
      OBVIOUS
    <2> DEFINE k == n + 1
    <2>1. k \in 1 .. Len(tr) /\ k - 1 = n /\ Len(tr) \in Nat /\ n <= Len(tr)
      BY LenProperties
    <2>2. OpenEntries(G, tr, n)
      BY <1>2, <2>1
    <2>3. Stepped(G, tr, n, k)
      <3> HIDE DEF k
      <3> QED BY <2>1, HistoryStep
    <2>4. ASSUME NEW y \in 1 .. Len(G[k])
          PROVE  G[k][y] \in 0 .. k /\ (G[k][y] # 0 => tr[G[k][y]].kind = "begin")
      <3>1. CASE y \in 1 .. Len(G[n]) /\ G[k][y] = G[n][y]
        BY <2>2, <3>1 DEF OpenEntries
      <3>2. CASE tr[k].kind = "begin" /\ G[k][y] = k
        BY <3>2
      <3>3. \/ y \in 1 .. Len(G[n]) /\ G[k][y] = G[n][y]
            \/ tr[k].kind = "begin" /\ G[k][y] = k
        <4> HIDE DEF k
        <4>1. CASE tr[k].kind = "begin"
          BY <2>3, <4>1 DEF Stepped
        <4>2. CASE tr[k].kind = "end"
          BY <2>3, <4>2 DEF Stepped
        <4> QED BY <2>3, <4>1, <4>2 DEF Stepped
      <3> QED BY <3>1, <3>2, <3>3
    <2> QED BY <2>4 DEF OpenEntries
  <1>3. Nat \subseteq S
    <2> HIDE DEF S
    <2> QED BY <1>1, <1>2, Induction
  <1> QED BY <1>3

(* The span that i begins stays at its place for as long as it is open. *)
StaysOpen(G, i, k) == \A m \in i .. k : Len(G[m]) >= Len(G[i])

AtItsPlace(G, i, k) ==
    \A y \in 1 .. Len(G[k]) : G[k][y] = i <=> y = Len(G[i]) /\ StaysOpen(G, i, k)

(* A span keeps its place in the history as long as it is open. *)
LEMMA HistoryStays ==
  ASSUME NEW G, NEW tr \in Seq(EventType), History(G, tr), NEW i \in 1 .. Len(tr),
         tr[i].kind = "begin"
  PROVE  /\ Len(G[i]) \in Nat \ {0}
         /\ \A k \in i .. Len(tr) : AtItsPlace(G, i, k)
  <1> DEFINE P == Len(G[i])
             S == {d \in Nat : i + d <= Len(tr) => AtItsPlace(G, i, i + d)}
  <1>0. /\ i \in Nat /\ Len(tr) \in Nat /\ i - 1 \in 0 .. Len(tr)
        /\ P = Len(G[i - 1]) + 1 /\ Len(G[i - 1]) \in Nat /\ P \in Nat \ {0}
        /\ \A y \in 1 .. Len(G[i - 1]) : G[i][y] = G[i - 1][y]
        /\ G[i][P] = i
    <2>1. Stepped(G, tr, i - 1, i)
      BY HistoryStep
    <2>2. Len(tr) \in Nat /\ i \in Nat /\ i - 1 \in 0 .. Len(tr)
      BY LenProperties
    <2>3. /\ Len(G[i - 1]) \in Nat /\ P = Len(G[i - 1]) + 1
          /\ \A y \in 1 .. Len(G[i - 1]) : G[i][y] = G[i - 1][y]
          /\ G[i][P] = i
      BY <2>1 DEF Stepped
    <2> HIDE DEF P
    <2> QED BY <2>2, <2>3
  <1>1. 0 \in S
    <2>1. OpenEntries(G, tr, i - 1)
      BY <1>0, HistoryEntries
    <2>2. \A y \in 1 .. P : G[i][y] = i <=> y = P
      <3> DEFINE O == Len(G[i - 1])
      <3>1. \A y \in 1 .. O : G[i - 1][y] \in 0 .. i - 1
        BY <2>1 DEF OpenEntries
      <3> HIDE DEF P, O
      <3>2. \A y \in 1 .. O : G[i][y] # i
        BY <1>0, <3>1 DEF O
      <3>3. O \in Nat /\ P = O + 1
        BY <1>0 DEF O
      <3>4. \A y \in 1 .. P : y \in 1 .. O \/ y = P
        BY <3>3
      <3>5. \A y \in 1 .. O : y # P
        BY <3>3
      <3> QED BY <1>0, <3>2, <3>4, <3>5
    <2>3. i + 0 = i /\ StaysOpen(G, i, i)
      BY <1>0 DEF StaysOpen
    <2>4. AtItsPlace(G, i, i)
      BY <2>2, <2>3 DEF AtItsPlace
    <2> QED BY <2>3, <2>4
  <1>2. ASSUME NEW d \in Nat, d \in S PROVE d + 1 \in S
    <2> SUFFICES ASSUME i + (d + 1) <= Len(tr) PROVE AtItsPlace(G, i, i + (d + 1))
      OBVIOUS
    <2> DEFINE n == i + d
               k == i + (d + 1)
    <2>1. k \in 1 .. Len(tr) /\ k - 1 = n /\ n <= Len(tr) /\ n \in Nat /\ k = n + 1 /\ i <= n
      BY <1>0
    <2>2. AtItsPlace(G, i, n)
      BY <1>2, <2>1
    <2> HIDE DEF n, k
    <2>3. Stepped(G, tr, n, k)
      BY <2>1, HistoryStep
    <2>4. StaysOpen(G, i, k) <=> StaysOpen(G, i, n) /\ Len(G[k]) >= P
      <3>1. \A m \in i .. k : m \in i .. n \/ m = k
        BY <1>0, <2>1
      <3>2. k \in i .. k /\ \A m \in i .. n : m \in i .. k
        BY <1>0, <2>1
      <3> QED BY <3>1, <3>2 DEF StaysOpen
    <2>5. ASSUME NEW y \in 1 .. Len(G[k])
          PROVE  G[k][y] = i <=> y = P /\ StaysOpen(G, i, k)
      <3>1. StaysOpen(G, i, n) => P <= Len(G[n])
        BY <1>0, <2>1 DEF StaysOpen
      <3>2. CASE tr[k].kind = "begin"
        <4>1. CASE y = Len(G[k])
          <5>1. G[k][y] # i
            BY <1>0, <2>1, <2>3, <3>2, <4>1 DEF Stepped
          <5>2. y = P => ~StaysOpen(G, i, k)
            BY <1>0, <2>3, <2>4, <3>1, <3>2, <4>1 DEF Stepped
          <5> QED BY <5>1, <5>2
        <4>2. CASE y # Len(G[k])
          <5>0. /\ Len(G[n]) \in Nat /\ Len(G[k]) = Len(G[n]) + 1
                /\ \A z \in 1 .. Len(G[n]) : G[k][z] = G[n][z]
            BY <2>3, <3>2 DEF Stepped
          <5>1. y \in 1 .. Len(G[n]) /\ G[k][y] = G[n][y]
            BY <4>2, <5>0
          <5>2. G[n][y] = i <=> y = P /\ StaysOpen(G, i, n)
            BY <2>2, <5>1 DEF AtItsPlace
          <5>3. StaysOpen(G, i, n) => Len(G[k]) >= P
            BY <1>0, <3>1, <5>0
          <5> QED BY <2>4, <5>1, <5>2, <5>3
        <4> QED BY <4>1, <4>2
      <3>3. CASE tr[k].kind = "end"
        <4>1. y \in 1 .. Len(G[n]) /\ G[k][y] = G[n][y]
          BY <2>3, <3>3 DEF Stepped
        <4>2. G[n][y] = i <=> y = P /\ StaysOpen(G, i, n)
          BY <2>2, <4>1 DEF AtItsPlace
        <4>3. y = P => Len(G[k]) >= P
          BY <1>0, <2>3 DEF Stepped
        <4> QED BY <2>4, <4>1, <4>2, <4>3
      <3> QED BY <2>3, <3>2, <3>3 DEF Stepped
    <2>6. AtItsPlace(G, i, k)
      BY <2>5 DEF AtItsPlace
    <2> QED BY <2>6 DEF k
  <1>3. Nat \subseteq S
    <2> HIDE DEF S
    <2> QED BY <1>1, <1>2, Induction
  <1>4. ASSUME NEW k \in i .. Len(tr) PROVE AtItsPlace(G, i, k)
    <2>1. k - i \in Nat /\ i + (k - i) = k /\ k <= Len(tr)
      BY <1>0
    <2>2. k - i \in S
      <3> HIDE DEF S
      <3> QED BY <1>3, <2>1
    <2> QED BY <2>1, <2>2
  <1> QED BY <1>0, <1>4

(* Differences of lengths. *)
LEMMA Longer ==
  /\ \A a, b, p \in Nat : p = b + 1 => (a - b > 0 <=> a >= p)
  /\ \A a, b \in Nat : a - b = 0 <=> a = b
  OBVIOUS

Count(i, j, kind) == Cardinality({k \in i .. j : Kind(k) = kind})

(* Counting the events of a kind one event further. *)
LEMMA CountStep ==
  ASSUME NEW i \in Nat, NEW j \in Nat, i <= j + 1, NEW kind
  PROVE  /\ Count(i, j, kind) \in Nat
         /\ Count(i, j + 1, kind) = Count(i, j, kind) + (IF Kind(j + 1) = kind THEN 1 ELSE 0)
  <1> DEFINE A == {k \in i .. j : Kind(k) = kind}
             B == {k \in i .. j + 1 : Kind(k) = kind}
  <1>1. IsFiniteSet(A) /\ j + 1 \notin A
    <2>1. IsFiniteSet(i .. j)
      BY FS_Interval
    <2>2. A \subseteq i .. j
      OBVIOUS
    <2> QED BY <2>1, <2>2, FS_Subset
  <1>2. Cardinality(A) \in Nat
    BY <1>1, FS_CardinalityType
  <1>3. CASE Kind(j + 1) = kind
    <2>1. B = A \cup {j + 1}
      BY <1>3
    <2>2. Cardinality(A \cup {j + 1}) = Cardinality(A) + 1
      <3> HIDE DEF A
      <3> QED BY <1>1, FS_AddElement
    <2> QED BY <1>2, <1>3, <2>1, <2>2 DEF Count
  <1>4. CASE Kind(j + 1) # kind
    <2>1. B = A
      BY <1>4
    <2> QED BY <1>2, <1>4, <2>1 DEF Count
  <1> QED BY <1>3, <1>4

BalanceAt(G, i, k) == Balance(i, k) = Len(G[k]) - Len(G[i - 1])

(* The balance of begins and ends is by how much the open spans grew. *)
LEMMA BalanceIs ==
  ASSUME NEW G, trace \in Seq(EventType), History(G, trace), NEW i \in 1 .. Len(trace),
         NEW k \in i - 1 .. Len(trace)
  PROVE  Balance(i, k) = Len(G[k]) - Len(G[i - 1])
  <1> DEFINE N == Len(trace)
             S == {d \in Nat : (i - 1) + d <= N => BalanceAt(G, i, (i - 1) + d)}
  <1>0. N \in Nat /\ i \in Nat /\ i - 1 \in Nat
    BY LenProperties
  <1>1. 0 \in S
    <2>1. Len(G[i - 1]) \in Nat
      <3>1. Stepped(G, trace, i - 1, i)
        BY HistoryStep
      <3> QED BY <3>1 DEF Stepped
    <2>2. i .. (i - 1) = {}
      BY <1>0
    <2>3. \A kind : {x \in i .. (i - 1) : Kind(x) = kind} = {}
      BY <2>2
    <2>4. Balance(i, i - 1) = Cardinality({}) - Cardinality({})
      BY <2>3 DEF Balance
    <2>5. Cardinality({}) = 0
      BY FS_EmptySet
    <2>6. Balance(i, i - 1) = 0
      <3>1. 0 - 0 = 0
        OBVIOUS
      <3> QED BY <2>4, <2>5, <3>1
    <2>7. (i - 1) + 0 = i - 1 /\ Len(G[i - 1]) - Len(G[i - 1]) = 0
      BY <1>0, <2>1
    <2> QED BY <2>6, <2>7 DEF BalanceAt
  <1>2. ASSUME NEW d \in Nat, d \in S PROVE d + 1 \in S
    <2> DEFINE n == (i - 1) + d
               m == (i - 1) + (d + 1)
    <2> SUFFICES ASSUME m <= N PROVE BalanceAt(G, i, m)
      OBVIOUS
    <2>1. /\ n \in Nat /\ m \in 1 .. N /\ m = n + 1 /\ m - 1 = n /\ i <= n + 1 /\ n <= N
      BY <1>0
    <2>2. Balance(i, n) = Len(G[n]) - Len(G[i - 1])
      BY <1>2, <2>1 DEF BalanceAt
    <2> HIDE DEF n, m
    <2>3. Stepped(G, trace, n, m)
      BY <2>1, HistoryStep
    <2>4. Stepped(G, trace, i - 1, i)
      BY HistoryStep
    <2>5. /\ Balance(i, n) = Count(i, n, "begin") - Count(i, n, "end")
          /\ Balance(i, m) = Count(i, m, "begin") - Count(i, m, "end")
      BY DEF Balance, Count
    <2>6. /\ Count(i, n, "begin") \in Nat /\ Count(i, n, "end") \in Nat
          /\ Count(i, m, "begin") = Count(i, n, "begin") + (IF Kind(m) = "begin" THEN 1 ELSE 0)
          /\ Count(i, m, "end") = Count(i, n, "end") + (IF Kind(m) = "end" THEN 1 ELSE 0)
      BY <1>0, <2>1, CountStep
    <2>7. Len(G[i - 1]) \in Nat /\ Len(G[n]) \in Nat
      BY <2>3, <2>4 DEF Stepped
    <2>8. \/ Kind(m) = "begin" /\ Kind(m) # "end" /\ Len(G[m]) = Len(G[n]) + 1
          \/ Kind(m) = "end" /\ Kind(m) # "begin" /\ Len(G[m]) = Len(G[n]) - 1
      BY <2>3 DEF Stepped, Kind
    <2> DEFINE cb == Count(i, n, "begin")
               ce == Count(i, n, "end")
               a == Len(G[n])
               b == Len(G[i - 1])
    <2>9. CASE Kind(m) = "begin" /\ Kind(m) # "end" /\ Len(G[m]) = Len(G[n]) + 1
      <3>1. Balance(i, m) = (cb + 1) - (ce + 0) /\ cb - ce = a - b /\ Len(G[m]) = a + 1
        BY <2>2, <2>5, <2>6, <2>9
      <3>2. cb \in Nat /\ ce \in Nat /\ a \in Nat /\ b \in Nat
        BY <2>6, <2>7
      <3> HIDE DEF cb, ce, a
      <3>3. (cb + 1) - (ce + 0) = (a + 1) - b
        <4> HIDE DEF b
        <4> QED BY <3>1, <3>2
      <3> QED BY <3>1, <3>3 DEF BalanceAt
    <2>10. CASE Kind(m) = "end" /\ Kind(m) # "begin" /\ Len(G[m]) = Len(G[n]) - 1
      <3>1. Balance(i, m) = (cb + 0) - (ce + 1) /\ cb - ce = a - b /\ Len(G[m]) = a - 1
        BY <2>2, <2>5, <2>6, <2>10
      <3>2. cb \in Nat /\ ce \in Nat /\ a \in Nat /\ b \in Nat
        BY <2>6, <2>7
      <3> HIDE DEF cb, ce, a
      <3>3. (cb + 0) - (ce + 1) = (a - 1) - b
        <4> HIDE DEF b
        <4> QED BY <3>1, <3>2
      <3> QED BY <3>1, <3>3 DEF BalanceAt
    <2> QED BY <2>8, <2>9, <2>10
  <1>3. Nat \subseteq S
    <2> HIDE DEF S
    <2> QED BY <1>1, <1>2, Induction
  <1>4. k - (i - 1) \in Nat /\ (i - 1) + (k - (i - 1)) = k /\ k <= N
    BY <1>0
  <1>5. k - (i - 1) \in S
    <2> HIDE DEF S
    <2> QED BY <1>3, <1>4
  <1> QED BY <1>4, <1>5 DEF BalanceAt

(* An event ends the span that was opened last. *)
LEMMA EndsIs ==
  ASSUME NEW G, trace \in Seq(EventType), History(G, trace),
         NEW i \in 1 .. Len(trace), NEW j \in 1 .. Len(trace), Kind(j) = "end"
  PROVE  Ends(i, j) <=> G[j - 1][Len(G[j - 1])] = i
  <1> DEFINE P == Len(G[i])
             q == Len(G[j - 1])
  <1>0. /\ Len(trace) \in Nat /\ i \in Nat /\ j \in Nat /\ j - 1 \in 0 .. Len(trace)
    BY LenProperties
  <1>1. /\ Stepped(G, trace, i - 1, i) /\ Stepped(G, trace, j - 1, j)
    BY HistoryStep
  <1>2. q \in Nat /\ q # 0 /\ Len(G[j]) = q - 1 /\ P \in Nat /\ Len(G[i - 1]) \in Nat
    BY <1>1 DEF Stepped, Kind
  <1>3. Kind(i) = "begin" => P = Len(G[i - 1]) + 1
    BY <1>1 DEF Stepped, Kind
  <1>4. \A k \in i - 1 .. Len(trace) : Balance(i, k) = Len(G[k]) - Len(G[i - 1])
    BY BalanceIs
  <1>5. \A k \in i .. Len(trace) : Len(G[k]) \in Nat
    <2>1. ASSUME NEW k \in i .. Len(trace) PROVE Len(G[k]) \in Nat
      <3>1. k \in 1 .. Len(trace)
        BY <1>0
      <3>2. Stepped(G, trace, k - 1, k)
        BY <3>1, HistoryStep
      <3> QED BY <3>2 DEF Stepped
    <2> QED BY <2>1
  <1>6. ASSUME Ends(i, j) PROVE G[j - 1][q] = i
    <2>1. /\ i < j /\ Kind(i) = "begin" /\ Balance(i, j) = 0
          /\ \A k \in i .. j - 1 : Balance(i, k) > 0
      BY <1>6 DEF Ends
    <2>2. j - 1 \in i .. Len(trace) /\ j \in i - 1 .. Len(trace)
      BY <1>0, <2>1
    <2>3. ASSUME NEW m \in i .. j - 1 PROVE Len(G[m]) >= P
      <3>1. m \in i .. Len(trace) /\ m \in i - 1 .. Len(trace)
        BY <1>0
      <3>2. Len(G[m]) \in Nat /\ Len(G[m]) - Len(G[i - 1]) > 0
        BY <1>4, <1>5, <2>1, <3>1
      <3> QED BY <1>2, <1>3, <2>1, <3>2, Longer
    <2>4. StaysOpen(G, i, j - 1)
      BY <2>3 DEF StaysOpen
    <2>5. q = P
      <3>1. Len(G[j]) - Len(G[i - 1]) = 0
        BY <1>4, <2>1, <2>2
      <3> HIDE DEF P, q
      <3> QED BY <1>2, <1>3, <2>1, <3>1
    <2>6. AtItsPlace(G, i, j - 1)
      BY <2>1, <2>2, HistoryStays DEF Kind
    <2>7. q \in 1 .. q
      <3> HIDE DEF q
      <3> QED BY <1>2
    <2> QED BY <2>4, <2>5, <2>6, <2>7 DEF AtItsPlace
  <1>7. ASSUME G[j - 1][q] = i PROVE Ends(i, j)
    <2>1. q \in 1 .. q
      <3> HIDE DEF q
      <3> QED BY <1>2
    <2>2. OpenEntries(G, trace, j - 1)
      BY <1>0, HistoryEntries
    <2>3. i \in 0 .. j - 1 /\ Kind(i) = "begin"
      BY <1>0, <1>7, <2>1, <2>2 DEF OpenEntries, Kind
    <2>4. i < j /\ j - 1 \in i .. Len(trace) /\ j \in i - 1 .. Len(trace)
      BY <1>0, <2>3
    <2>5. AtItsPlace(G, i, j - 1)
      BY <2>3, <2>4, HistoryStays DEF Kind
    <2>6. q = P /\ StaysOpen(G, i, j - 1)
      BY <1>7, <2>1, <2>5 DEF AtItsPlace
    <2>7. ASSUME NEW k \in i .. j - 1 PROVE Balance(i, k) > 0
      <3>1. k \in i .. Len(trace) /\ k \in i - 1 .. Len(trace)
        BY <1>0
      <3>2. Balance(i, k) = Len(G[k]) - Len(G[i - 1]) /\ Len(G[k]) \in Nat /\ Len(G[k]) >= P
        BY <1>4, <1>5, <2>6, <3>1 DEF StaysOpen
      <3>3. Len(G[k]) - Len(G[i - 1]) > 0
        BY <1>2, <1>3, <2>3, <3>2, Longer
      <3> QED BY <3>2, <3>3
    <2>8. Balance(i, j) = 0
      <3>1. Balance(i, j) = Len(G[j]) - Len(G[i - 1])
        BY <1>4, <2>4
      <3> HIDE DEF P, q
      <3> QED BY <1>2, <1>3, <2>3, <2>6, <3>1
    <2> QED BY <2>3, <2>4, <2>7, <2>8 DEF Ends
  <1> QED BY <1>6, <1>7

(* A span is open until an event ends it. *)
LEMMA OpenIs ==
  ASSUME NEW G, trace \in Seq(EventType), History(G, trace),
         NEW i \in 1 .. Len(trace), Kind(i) = "begin", NEW e \in i .. Len(trace)
  PROVE  (\E y \in 1 .. Len(G[e]) : G[e][y] = i) <=> ~\E j \in i .. e : Ends(i, j)
  <1> DEFINE P == Len(G[i])
  <1>0. Len(trace) \in Nat /\ i \in Nat /\ e \in Nat /\ i - 1 \in Nat /\ P \in Nat \ {0}
    BY LenProperties, HistoryStays DEF Kind
  <1>1. AtItsPlace(G, i, e)
    BY HistoryStays DEF Kind
  <1>2. \A k \in i .. Len(trace) : /\ Balance(i, k) = Len(G[k]) - Len(G[i - 1])
                                   /\ Stepped(G, trace, k - 1, k)
    <2>1. ASSUME NEW k \in i .. Len(trace)
          PROVE  Balance(i, k) = Len(G[k]) - Len(G[i - 1]) /\ Stepped(G, trace, k - 1, k)
      <3>1. k \in i - 1 .. Len(trace) /\ k \in 1 .. Len(trace)
        BY <1>0
      <3> QED BY <3>1, BalanceIs, HistoryStep
    <2> QED BY <2>1
  <1>3. Len(G[i - 1]) \in Nat /\ P = Len(G[i - 1]) + 1
    <2>1. i \in i .. Len(trace)
      BY <1>0
    <2>2. Stepped(G, trace, i - 1, i)
      BY <1>2, <2>1
    <2> QED BY <2>2 DEF Stepped, Kind
  <1> HIDE DEF P
  <1>4. ASSUME NEW y \in 1 .. Len(G[e]), G[e][y] = i, NEW j \in i .. e, Ends(i, j) PROVE FALSE
    <2>1. StaysOpen(G, i, e)
      BY <1>1, <1>4 DEF AtItsPlace
    <2>2. Len(G[j]) >= P /\ j \in i .. Len(trace)
      BY <1>0, <2>1 DEF StaysOpen, P
    <2>3. Len(G[j]) - Len(G[i - 1]) = 0 /\ Len(G[j]) \in Nat
      BY <1>2, <1>4, <2>2 DEF Ends, Stepped
    <2> QED BY <1>3, <2>2, <2>3
  <1>5. ASSUME ~\E y \in 1 .. Len(G[e]) : G[e][y] = i PROVE \E j \in i .. e : Ends(i, j)
    <2> DEFINE T == {m \in i .. e : Len(G[m]) < P}
    <2>1. ~StaysOpen(G, i, e)
      <3> SUFFICES ASSUME StaysOpen(G, i, e) PROVE FALSE
        OBVIOUS
      <3>1. e \in i .. e /\ e \in i .. Len(trace)
        BY <1>0
      <3>2. Len(G[e]) >= P /\ Len(G[e]) \in Nat
        BY <1>2, <3>1 DEF StaysOpen, P, Stepped
      <3>3. P \in 1 .. Len(G[e])
        BY <1>0, <3>2
      <3> QED BY <1>1, <1>5, <3>3 DEF AtItsPlace, P
    <2>2. PICK m \in i .. e : ~(Len(G[m]) >= P)
      BY <2>1 DEF StaysOpen, P
    <2>3. T \in SUBSET Nat /\ T # {}
      <3>1. m \in i .. Len(trace)
        BY <1>0
      <3>2. Len(G[m]) \in Nat
        BY <1>2, <3>1 DEF Stepped
      <3> QED BY <1>0, <2>2, <3>2
    <2>4. PICK j \in T : \A x \in T : j <= x
      BY <2>3, Least
    <2>5. j \in i .. e /\ Len(G[j]) < P /\ j # i /\ j - 1 \in i .. e /\ j - 1 \notin T /\ j \in i .. Len(trace)
          /\ j - 1 \in i .. Len(trace)
      BY <1>0, <2>4 DEF P
    <2>6. Stepped(G, trace, j - 1, j)
      BY <1>2, <2>5
    <2>7. Len(G[j - 1]) \in Nat /\ Len(G[j]) \in Nat /\ Len(G[j - 1]) >= P
      BY <1>0, <2>5, <2>6 DEF Stepped
    <2>8. Kind(j) = "end" /\ Len(G[j]) = Len(G[j - 1]) - 1
      BY <1>0, <2>5, <2>6, <2>7 DEF Stepped, Kind
    <2>9. Balance(i, j) = 0
      <3>1. Balance(i, j) = Len(G[j]) - Len(G[i - 1])
        BY <1>2, <2>5
      <3>2. Len(G[j]) = Len(G[i - 1])
        BY <1>0, <1>3, <2>5, <2>7, <2>8
      <3>3. Len(G[j]) - Len(G[i - 1]) = 0
        BY <1>3, <2>7, <3>2, Longer
      <3> QED BY <3>1, <3>3 DEF BalanceAt
    <2>10. ASSUME NEW k \in i .. j - 1 PROVE Balance(i, k) > 0
      <3>1. k \in i .. e /\ k \in i .. Len(trace) /\ k < j
        BY <1>0, <2>5
      <3>2. k \notin T
        BY <2>4, <3>1, <1>0
      <3>3. Len(G[k]) >= P /\ Len(G[k]) \in Nat
        BY <1>0, <1>2, <3>1, <3>2 DEF Stepped
      <3>4. Balance(i, k) = Len(G[k]) - Len(G[i - 1])
        BY <1>2, <3>1
      <3>5. Len(G[k]) - Len(G[i - 1]) > 0
        <4>1. P \in Nat
          BY <1>0
        <4> HIDE DEF T
        <4> QED BY <1>3, <3>3, <4>1, Longer
      <3> QED BY <3>4, <3>5
    <2>11. i < j
      BY <1>0, <2>5
    <2> QED BY <2>5, <2>8, <2>9, <2>10, <2>11 DEF Ends
  <1> QED BY <1>4, <1>5

-----------------------------------------------------------------------------
(***************************************************************************)
(* Rows and nodes.                                                         *)
(***************************************************************************)

(* The span of a row or a node. *)
Strip(r) == [id |-> r.id, hash |-> r.hash, begin |-> r.begin, end |-> r.end]
Spans(R) == {Strip(R[y]) : y \in 1 .. Len(R)}

(* The fields of a row. *)
LEMMA RowFields ==
  ASSUME NEW r \in RowType
  PROVE  /\ r.id \in Int /\ r.parent \in Int /\ r.depth \in Nat /\ r.hash \in Hashes
         /\ r.begin \in Nat /\ r.end \in Nat
  BY DEF RowType

(* The fields of a node. *)
LEMMA NodeFields ==
  ASSUME NEW nd \in NodeType
  PROVE  /\ nd.id \in Int /\ nd.hash \in Hashes /\ nd.begin \in Nat /\ nd.end \in Nat
         /\ nd.children \in Seq(RowType)
  BY DEF NodeType

(* The row of a node's descendant, below the node's parent. *)
Shifted(row, id, d) ==
    [row EXCEPT !.parent = IF row.depth = 1 THEN id ELSE @, !.depth = @ + d]

(* A row that moves below a new parent stays the same span. *)
LEMMA ShiftedIs ==
  ASSUME NEW row \in RowType, NEW id \in Int, NEW d \in Nat
  PROVE  /\ Shifted(row, id, d) \in RowType
         /\ Strip(Shifted(row, id, d)) = Strip(row)
         /\ Shifted(row, id, d).depth = row.depth + d
         /\ Shifted(row, id, d).begin = row.begin /\ Shifted(row, id, d).end = row.end
  <1> DEFINE s == Shifted(row, id, d)
             p == IF row.depth = 1 THEN id ELSE row.parent
  <1>1. p \in Int /\ row.depth + d \in Nat
    BY RowFields
  <1>2. s = [row EXCEPT !.parent = p, !.depth = row.depth + d]
    BY DEF Shifted
  <1> HIDE DEF p
  <1>3. s \in RowType
    <2> HIDE DEF s
    <2>1. [row EXCEPT !.parent = p] \in RowType
      BY <1>1 DEF RowType
    <2>2. \A r \in RowType, k \in Nat : [r EXCEPT !.depth = k] \in RowType
      BY DEF RowType
    <2>3. s = [[row EXCEPT !.parent = p] EXCEPT !.depth = row.depth + d]
      BY <1>2
    <2> QED BY <1>1, <2>1, <2>2, <2>3
  <1>4. s.id = row.id /\ s.hash = row.hash /\ s.begin = row.begin /\ s.end = row.end
        /\ s.depth = row.depth + d
    <2> HIDE DEF s
    <2> QED BY <1>2 DEF RowType
  <1>5. Strip(s) = Strip(row)
    <2> HIDE DEF s
    <2> QED BY <1>4 DEF Strip
  <1> QED BY <1>3, <1>4, <1>5

FirstRow(nd, p, d) ==
    [id |-> nd.id, parent |-> p, depth |-> d, hash |-> nd.hash, begin |-> nd.begin, end |-> nd.end]

(* The rows of a node: its own, and those below it. *)
LEMMA RowsOfNode ==
  ASSUME NEW nd \in NodeType, NEW p \in Int, NEW d \in Nat
  PROVE  LET R == for_each_node_in_tree(nd, p, d) IN
         /\ R \in Seq(RowType) /\ Len(nd.children) \in Nat /\ Len(R) = Len(nd.children) + 1
         /\ R[1] = FirstRow(nd, p, d)
         /\ \A y \in 1 .. Len(nd.children) : R[y + 1] = Shifted(nd.children[y], nd.id, d)
  <1> DEFINE C == nd.children
             one == <<FirstRow(nd, p, d)>>
             rest == [i \in DOMAIN C |-> Shifted(C[i], nd.id, d)]
  <1>1. C \in Seq(RowType) /\ nd.id \in Int /\ FirstRow(nd, p, d) \in RowType
    BY NodeFields DEF FirstRow, RowType
  <1>2. Len(C) \in Nat /\ DOMAIN C = 1 .. Len(C) /\ \A i \in 1 .. Len(C) : C[i] \in RowType
    BY <1>1, LenProperties, ElementOfSeq
  <1>3. rest \in Seq(RowType) /\ Len(rest) = Len(C)
    <2>1. \A i \in 1 .. Len(C) : Shifted(C[i], nd.id, d) \in RowType
      BY <1>1, <1>2, ShiftedIs
    <2>2. rest \in [1 .. Len(C) -> RowType]
      <3> HIDE DEF C
      <3> QED BY <1>2, <2>1
    <2>3. rest \in Seq(RowType)
      <3> HIDE DEF C, rest
      <3> QED BY <1>2, <2>2, SeqDef
    <2>4. DOMAIN rest = 1 .. Len(C)
      <3> HIDE DEF C
      <3> QED BY <1>2
    <2> HIDE DEF rest, C
    <2> QED BY <1>2, <2>3, <2>4, LenProperties
  <1>4. one \in Seq(RowType) /\ Len(one) = 1 /\ one[1] = FirstRow(nd, p, d)
    <2> HIDE DEF C, rest
    <2> QED BY <1>1
  <1>5. for_each_node_in_tree(nd, p, d) = one \o rest
    BY DEF for_each_node_in_tree, FirstRow, Shifted
  <1>6. \A i \in 1 .. Len(C) : rest[i] = Shifted(C[i], nd.id, d)
    <2> HIDE DEF C
    <2> QED BY <1>2
  <1> HIDE DEF one, rest, C
  <1>7. /\ one \o rest \in Seq(RowType) /\ Len(one \o rest) = 1 + Len(C)
        /\ \A i \in 1 .. 1 + Len(C) :
              (one \o rest)[i] = IF i <= 1 THEN one[i] ELSE rest[i - 1]
    BY <1>3, <1>4, ConcatProperties
  <1>8. (one \o rest)[1] = FirstRow(nd, p, d)
    BY <1>2, <1>4, <1>7
  <1>9. ASSUME NEW y \in 1 .. Len(C) PROVE (one \o rest)[y + 1] = Shifted(C[y], nd.id, d)
    <2>1. y + 1 \in 1 .. 1 + Len(C) /\ ~(y + 1 <= 1) /\ (y + 1) - 1 = y
      BY <1>2
    <2>2. (one \o rest)[y + 1] = rest[(y + 1) - 1]
      BY <1>7, <2>1
    <2> QED BY <1>6, <2>1, <2>2
  <1>10. /\ for_each_node_in_tree(nd, p, d) \in Seq(RowType) /\ Len(C) \in Nat
         /\ Len(for_each_node_in_tree(nd, p, d)) = Len(C) + 1
    BY <1>2, <1>5, <1>7
  <1>11. for_each_node_in_tree(nd, p, d)[1] = FirstRow(nd, p, d)
    BY <1>5, <1>8
  <1>12. \A y \in 1 .. Len(C) :
            for_each_node_in_tree(nd, p, d)[y + 1] = Shifted(C[y], nd.id, d)
    BY <1>5, <1>9
  <1> QED BY <1>10, <1>11, <1>12, Zenon DEF C

(* The spans of a tree are its node's and those below it. *)
LEMMA SpansOfNode ==
  ASSUME NEW nd \in NodeType, NEW p \in Int, NEW d \in Nat
  PROVE  Spans(for_each_node_in_tree(nd, p, d)) = {Strip(nd)} \cup Spans(nd.children)
  <1> DEFINE R == for_each_node_in_tree(nd, p, d)
             n == Len(nd.children)
  <1>1. /\ n \in Nat /\ Len(R) = n + 1 /\ R[1] = FirstRow(nd, p, d)
        /\ \A y \in 1 .. n : R[y + 1] = Shifted(nd.children[y], nd.id, d)
    BY RowsOfNode
  <1>2. Strip(R[1]) = Strip(nd)
    BY <1>1 DEF Strip, FirstRow
  <1>3. ASSUME NEW y \in 1 .. n PROVE Strip(R[y + 1]) = Strip(nd.children[y])
    <2>1. nd.children[y] \in RowType /\ nd.id \in Int
      BY NodeFields, ElementOfSeq
    <2>2. Strip(Shifted(nd.children[y], nd.id, d)) = Strip(nd.children[y])
      BY <2>1, ShiftedIs
    <2>3. R[y + 1] = Shifted(nd.children[y], nd.id, d)
      BY <1>1
    <2> QED BY <2>2, <2>3
  <1> HIDE DEF R, n
  <1>4. ASSUME NEW y \in 1 .. Len(R) PROVE Strip(R[y]) \in {Strip(nd)} \cup Spans(nd.children)
    <2>1. CASE y = 1
      BY <1>2, <2>1
    <2>2. CASE y # 1
      <3>1. y - 1 \in 1 .. n /\ (y - 1) + 1 = y
        BY <1>1, <2>2
      <3>2. Strip(R[y]) = Strip(nd.children[y - 1])
        BY <1>3, <3>1
      <3> QED BY <3>1, <3>2 DEF Spans, n
    <2> QED BY <2>1, <2>2
  <1>5. ASSUME NEW y \in 1 .. n PROVE Strip(nd.children[y]) \in Spans(R)
    <2>1. y + 1 \in 1 .. Len(R)
      BY <1>1
    <2> QED BY <1>3, <2>1 DEF Spans
  <1>6. Strip(nd) \in Spans(R)
    <2>1. 1 \in 1 .. Len(R)
      BY <1>1
    <2> QED BY <1>2, <2>1 DEF Spans
  <1>7. Spans(R) \subseteq {Strip(nd)} \cup Spans(nd.children)
    BY <1>4 DEF Spans
  <1>8. Spans(nd.children) \subseteq Spans(R)
    BY <1>5 DEF Spans, n
  <1> QED BY <1>6, <1>7, <1>8 DEF R

(* A node with one more child. *)
LEMMA PushChildIs ==
  ASSUME NEW pa \in NodeType, NEW nd \in NodeType
  PROVE  LET new == PushChild(pa, nd)
             R   == for_each_node_in_tree(nd, pa.id, 1) IN
         /\ new \in NodeType
         /\ new.id = pa.id /\ new.hash = pa.hash /\ new.begin = pa.begin /\ new.end = pa.end
         /\ new.children = pa.children \o R
         /\ Len(pa.children) \in Nat /\ Len(R) \in Nat
         /\ Len(new.children) = Len(pa.children) + Len(R)
         /\ \A i \in 1 .. Len(pa.children) : new.children[i] = pa.children[i]
         /\ \A i \in 1 .. Len(R) : new.children[Len(pa.children) + i] = R[i]
         /\ Spans(new.children) = Spans(pa.children) \cup ({Strip(nd)} \cup Spans(nd.children))
  <1> DEFINE new == PushChild(pa, nd)
             R   == for_each_node_in_tree(nd, pa.id, 1)
             C == pa.children
             D == C \o R
  <1>1. C \in Seq(RowType) /\ pa.id \in Int /\ Len(C) \in Nat
    BY NodeFields, LenProperties
  <1>2. R \in Seq(RowType) /\ Len(R) \in Nat
    BY <1>1, RowsOfNode, LenProperties
  <1>3. new = [pa EXCEPT !.children = D]
    BY DEF PushChild
  <1>4. Spans(R) = {Strip(nd)} \cup Spans(nd.children)
    BY <1>1, SpansOfNode
  <1> HIDE DEF R
  <1>5. /\ D \in Seq(RowType) /\ Len(D) = Len(C) + Len(R)
        /\ \A i \in 1 .. Len(C) + Len(R) : D[i] = IF i <= Len(C) THEN C[i] ELSE R[i - Len(C)]
    BY <1>1, <1>2, ConcatProperties
  <1>6. \A i \in 1 .. Len(C) : D[i] = C[i] /\ i \in 1 .. Len(D)
    <2> HIDE DEF C, D
    <2> QED BY <1>1, <1>2, <1>5
  <1>7. ASSUME NEW i \in 1 .. Len(R) PROVE D[Len(C) + i] = R[i] /\ Len(C) + i \in 1 .. Len(D)
    <2> HIDE DEF C, D
    <2>1. Len(C) + i \in 1 .. Len(C) + Len(R) /\ ~(Len(C) + i <= Len(C)) /\ (Len(C) + i) - Len(C) = i
      BY <1>1, <1>2
    <2> QED BY <1>5, <2>1
  <1>8. Spans(D) = Spans(C) \cup Spans(R)
    <2> HIDE DEF C, D
    <2>1. ASSUME NEW y \in 1 .. Len(D) PROVE Strip(D[y]) \in Spans(C) \cup Spans(R)
      <3>1. CASE y <= Len(C)
        <4>1. y \in 1 .. Len(C) /\ D[y] = C[y]
          BY <1>1, <1>6, <3>1
        <4> QED BY <4>1 DEF Spans
      <3>2. CASE ~(y <= Len(C))
        <4>1. y - Len(C) \in 1 .. Len(R) /\ D[y] = R[y - Len(C)]
          BY <1>1, <1>2, <1>5, <3>2
        <4> QED BY <4>1 DEF Spans
      <3> QED BY <3>1, <3>2
    <2>2. Spans(D) \subseteq Spans(C) \cup Spans(R)
      BY <2>1 DEF Spans
    <2>3. Spans(C) \subseteq Spans(D)
      BY <1>6 DEF Spans
    <2>4. Spans(R) \subseteq Spans(D)
      BY <1>7 DEF Spans
    <2> QED BY <2>2, <2>3, <2>4
  <1> HIDE DEF D
  <1>9. /\ new \in NodeType /\ new.children = D
        /\ new.id = pa.id /\ new.hash = pa.hash /\ new.begin = pa.begin /\ new.end = pa.end
    BY <1>3, <1>5 DEF NodeType
  <1> QED BY <1>1, <1>2, <1>4, <1>5, <1>6, <1>7, <1>8, <1>9 DEF D, R

(* Rows i and j of SpansNested. *)
PairNested(R, i, j) ==
    IF Below(R, i, j) THEN R[i].begin <= R[j].begin /\ R[j].end <= R[i].end
    ELSE R[i].end <= R[j].begin

Nested(R) == \A i, j \in 1 .. Len(R) : i < j => PairNested(R, i, j)

Within(r, d, lo, hi) == r.depth >= d /\ r.begin >= lo /\ r.end <= hi

(* Rows that may be the children of a node from lo to hi. *)
Forest(R, lo, hi) ==
    (\A y \in 1 .. Len(R) : Within(R[y], 1, lo, hi)) /\ Nested(R)

(* Children that lie within some time lie within a longer one. *)
LEMMA ForestGrows ==
  ASSUME NEW R \in Seq(RowType), NEW lo \in Nat, NEW hi \in Nat, NEW more \in Nat,
         Forest(R, lo, hi), hi <= more
  PROVE  Forest(R, lo, more)
  <1>1. ASSUME NEW y \in 1 .. Len(R) PROVE Within(R[y], 1, lo, more)
    <2>1. R[y] \in RowType
      BY ElementOfSeq
    <2>2. R[y].end \in Nat /\ Within(R[y], 1, lo, hi)
      BY <2>1, RowFields DEF Forest
    <2> QED BY <2>2 DEF Within
  <1> QED BY <1>1 DEF Forest

(* No children lie within any time. *)
LEMMA ForestEmpty == \A lo, hi : Forest(<<>>, lo, hi)
  BY DEF Forest, Nested

(* Whether a row is below another one is a matter of the rows between. *)
LEMMA BelowShift ==
  ASSUME NEW Q, NEW R, NEW a \in Nat, NEW d \in Nat, NEW i \in Nat, NEW j \in Nat, i < j,
         \A k \in i .. j : Q[k].depth \in Nat /\ R[k + a].depth = Q[k].depth + d
  PROVE  Below(R, i + a, j + a) <=> Below(Q, i, j)
  <1>1. i \in i .. j
    OBVIOUS
  <1>2. ASSUME Below(R, i + a, j + a) PROVE Below(Q, i, j)
    <2>1. ASSUME NEW k \in i + 1 .. j PROVE Q[i].depth < Q[k].depth
      <3>1. k \in i .. j /\ k + a \in (i + a) + 1 .. j + a
        OBVIOUS
      <3>2. R[i + a].depth < R[k + a].depth
        BY <1>2, <3>1 DEF Below
      <3>3. /\ Q[k].depth \in Nat /\ R[k + a].depth = Q[k].depth + d
            /\ Q[i].depth \in Nat /\ R[i + a].depth = Q[i].depth + d
        BY <1>1, <3>1
      <3> QED BY <3>2, <3>3
    <2> QED BY <2>1 DEF Below
  <1>3. ASSUME Below(Q, i, j) PROVE Below(R, i + a, j + a)
    <2>1. ASSUME NEW k \in (i + a) + 1 .. j + a PROVE R[i + a].depth < R[k].depth
      <3>1. k - a \in i .. j /\ k - a \in i + 1 .. j /\ (k - a) + a = k
        OBVIOUS
      <3>2. Q[i].depth < Q[k - a].depth
        BY <1>3, <3>1 DEF Below
      <3>3. /\ Q[k - a].depth \in Nat /\ R[(k - a) + a].depth = Q[k - a].depth + d
            /\ Q[i].depth \in Nat /\ R[i + a].depth = Q[i].depth + d
        BY <1>1, <3>1
      <3> QED BY <3>1, <3>2, <3>3
    <2>2. i + a < j + a
      OBVIOUS
    <2> QED BY <2>1, <2>2 DEF Below
  <1> QED BY <1>2, <1>3

(* So the rows that are shifted together stay nested. *)
LEMMA PairShift ==
  ASSUME NEW Q, NEW R, NEW a \in Nat, NEW d \in Nat, NEW i \in Nat, NEW j \in Nat, i < j,
         \A k \in i .. j : /\ Q[k].depth \in Nat /\ R[k + a].depth = Q[k].depth + d
                           /\ R[k + a].begin = Q[k].begin /\ R[k + a].end = Q[k].end,
         PairNested(Q, i, j)
  PROVE  PairNested(R, i + a, j + a)
  <1>1. i \in i .. j /\ j \in i .. j
    OBVIOUS
  <1>2. Below(R, i + a, j + a) <=> Below(Q, i, j)
    BY BelowShift
  <1>3. /\ R[i + a].begin = Q[i].begin /\ R[i + a].end = Q[i].end
        /\ R[j + a].begin = Q[j].begin /\ R[j + a].end = Q[j].end
    BY <1>1
  <1> QED BY <1>2, <1>3 DEF PairNested

(* The rows of a node whose children lie within it are nested. *)
LEMMA NodeNested ==
  ASSUME NEW nd \in NodeType, NEW p \in Int, NEW d \in Nat, nd.begin <= nd.end,
         Forest(nd.children, nd.begin, nd.end)
  PROVE  LET R == for_each_node_in_tree(nd, p, d) IN
         /\ Nested(R) /\ \A y \in 1 .. Len(R) : Within(R[y], d, nd.begin, nd.end)
         /\ Len(R) \in Nat \ {0} /\ R[1].depth = d
  <1> DEFINE R == for_each_node_in_tree(nd, p, d)
             C == nd.children
             n == Len(C)
  <1>1. /\ n \in Nat /\ Len(R) = n + 1 /\ R[1] = FirstRow(nd, p, d)
        /\ \A y \in 1 .. n : R[y + 1] = Shifted(C[y], nd.id, d)
    BY RowsOfNode
  <1>2. R[1].depth = d /\ R[1].begin = nd.begin /\ R[1].end = nd.end
    BY <1>1 DEF FirstRow
  <1>3. nd.begin \in Nat /\ nd.end \in Nat /\ C \in Seq(RowType) /\ nd.id \in Int
    BY NodeFields
  <1> HIDE DEF R
  <1>4. ASSUME NEW y \in 1 .. n
        PROVE  /\ C[y].depth \in Nat /\ C[y].depth >= 1 /\ C[y].begin \in Nat /\ C[y].end \in Nat
               /\ C[y].begin >= nd.begin /\ C[y].end <= nd.end
               /\ R[y + 1].depth = C[y].depth + d
               /\ R[y + 1].begin = C[y].begin /\ R[y + 1].end = C[y].end
    <2>1. C[y] \in RowType
      BY <1>3, ElementOfSeq
    <2>2. Within(C[y], 1, nd.begin, nd.end)
      BY DEF Forest
    <2>3. R[y + 1] = Shifted(C[y], nd.id, d)
      BY <1>1
    <2>4. /\ Shifted(C[y], nd.id, d).depth = C[y].depth + d
          /\ Shifted(C[y], nd.id, d).begin = C[y].begin /\ Shifted(C[y], nd.id, d).end = C[y].end
      BY <1>3, <2>1, ShiftedIs
    <2>5. C[y].depth \in Nat /\ C[y].begin \in Nat /\ C[y].end \in Nat
      BY <2>1, RowFields
    <2> HIDE DEF C
    <2> QED BY <2>2, <2>3, <2>4, <2>5 DEF Within
  <1>5. Nested(C)
    BY DEF Forest
  <1> HIDE DEF C, n
  <1>6. ASSUME NEW y \in 1 .. Len(R) PROVE Within(R[y], d, nd.begin, nd.end)
    <2>1. CASE y = 1
      BY <1>2, <1>3, <2>1 DEF Within
    <2>2. CASE y # 1
      <3>1. y - 1 \in 1 .. n /\ (y - 1) + 1 = y
        BY <1>1, <2>2
      <3> DEFINE z == y - 1
      <3>2. z \in 1 .. n /\ z + 1 = y
        BY <3>1
      <3> HIDE DEF z
      <3>3. /\ R[y].depth = C[z].depth + d /\ C[z].depth \in Nat
            /\ R[y].begin >= nd.begin /\ R[y].end <= nd.end
        BY <1>4, <3>2
      <3> QED BY <3>3 DEF Within
    <2> QED BY <2>1, <2>2
  <1>7. ASSUME NEW i \in 1 .. Len(R), NEW j \in 1 .. Len(R), i < j PROVE PairNested(R, i, j)
    <2>1. CASE i = 1
      <3>1. ASSUME NEW k \in 2 .. j PROVE R[1].depth < R[k].depth
        <4> DEFINE z == k - 1
        <4>1. z \in 1 .. n /\ z + 1 = k
          BY <1>1
        <4> HIDE DEF z
        <4>2. R[k].depth = C[z].depth + d /\ C[z].depth \in Nat /\ C[z].depth >= 1
          BY <1>4, <4>1
        <4> QED BY <1>2, <4>2
      <3>2. Below(R, i, j)
        <4>1. 1 + 1 = 2
          OBVIOUS
        <4> QED BY <1>7, <2>1, <3>1, <4>1 DEF Below
      <3>3. R[i].begin <= R[j].begin /\ R[j].end <= R[i].end
        BY <1>2, <1>3, <1>6, <2>1 DEF Within
      <3> QED BY <3>2, <3>3 DEF PairNested
    <2>2. CASE i # 1
      <3> DEFINE x == i - 1
                 z == j - 1
      <3>1. x \in 1 .. n /\ z \in 1 .. n /\ x < z /\ x + 1 = i /\ z + 1 = j /\ x \in Nat /\ z \in Nat
        BY <1>1, <1>7, <2>2
      <3> HIDE DEF x, z
      <3>2. PairNested(C, x, z)
        BY <1>5, <3>1 DEF Nested, n
      <3>3. \A k \in x .. z : /\ C[k].depth \in Nat /\ R[k + 1].depth = C[k].depth + d
                              /\ R[k + 1].begin = C[k].begin /\ R[k + 1].end = C[k].end
        <4>1. \A k \in x .. z : k \in 1 .. n
          BY <1>1, <3>1
        <4> QED BY <1>4, <4>1
      <3>4. PairNested(R, x + 1, z + 1)
        BY <3>1, <3>2, <3>3, PairShift
      <3> QED BY <3>1, <3>4
    <2> QED BY <2>1, <2>2
  <1>8. Nested(R)
    BY <1>7 DEF Nested
  <1> QED BY <1>1, <1>2, <1>6, <1>8 DEF R

(* A node may take a child that begins when its other children have ended. *)
LEMMA ForestJoin ==
  ASSUME NEW pa \in NodeType, NEW nd \in NodeType,
         pa.begin <= nd.begin, nd.begin <= nd.end,
         Forest(pa.children, pa.begin, nd.begin), Forest(nd.children, nd.begin, nd.end)
  PROVE  Forest(PushChild(pa, nd).children, pa.begin, nd.end)
  <1> DEFINE R == for_each_node_in_tree(nd, pa.id, 1)
             C == pa.children
             D == PushChild(pa, nd).children
             c == Len(C)
  <1>1. /\ c \in Nat /\ Len(R) \in Nat /\ Len(D) = c + Len(R)
        /\ \A i \in 1 .. c : D[i] = C[i]
        /\ \A i \in 1 .. Len(R) : D[c + i] = R[i]
        /\ D \in Seq(RowType)
    BY PushChildIs, NodeFields
  <1>2. /\ pa.begin \in Nat /\ nd.begin \in Nat /\ nd.end \in Nat /\ C \in Seq(RowType)
        /\ pa.id \in Int
    BY NodeFields
  <1>3. /\ Nested(R) /\ \A y \in 1 .. Len(R) : Within(R[y], 1, nd.begin, nd.end)
        /\ Len(R) \in Nat \ {0} /\ R[1].depth = 1
    BY <1>2, NodeNested
  <1>4. Nested(C) /\ \A y \in 1 .. c : Within(C[y], 1, pa.begin, nd.begin)
    BY DEF Forest
  <1>5. \A y \in 1 .. Len(D) : D[y].depth \in Nat /\ D[y].begin \in Nat /\ D[y].end \in Nat
    <2> HIDE DEF D
    <2> QED BY <1>1, ElementOfSeq, RowFields
  <1> HIDE DEF C, D, R, c
  <1>6. \A y \in 1 .. Len(D) : \/ y \in 1 .. c /\ D[y] = C[y]
                               \/ y - c \in 1 .. Len(R) /\ c + (y - c) = y /\ D[y] = R[y - c]
    <2>1. ASSUME NEW y \in 1 .. Len(D), ~(y \in 1 .. c)
          PROVE  y - c \in 1 .. Len(R) /\ c + (y - c) = y
      BY <1>1, <2>1
    <2> QED BY <1>1, <2>1
  <1>7. ASSUME NEW y \in 1 .. Len(D) PROVE Within(D[y], 1, pa.begin, nd.end)
    <2>1. CASE y \in 1 .. c /\ D[y] = C[y]
      BY <1>2, <1>4, <1>5, <2>1 DEF Within
    <2>2. CASE y - c \in 1 .. Len(R) /\ D[y] = R[y - c]
      BY <1>2, <1>3, <1>5, <2>2 DEF Within
    <2> QED BY <1>6, <2>1, <2>2
  <1>8. ASSUME NEW i \in 1 .. Len(D), NEW j \in 1 .. Len(D), i < j PROVE PairNested(D, i, j)
    <2>1. CASE j <= c
      <3>1. i \in 1 .. c /\ j \in 1 .. c /\ i \in Nat /\ j \in Nat
        BY <1>1, <1>8, <2>1
      <3>2. PairNested(C, i, j)
        BY <1>4, <1>8, <3>1 DEF Nested, c
      <3>3. \A k \in i .. j : /\ C[k].depth \in Nat /\ D[k + 0].depth = C[k].depth + 0
                              /\ D[k + 0].begin = C[k].begin /\ D[k + 0].end = C[k].end
        <4>1. ASSUME NEW k \in i .. j
              PROVE /\ C[k].depth \in Nat /\ D[k + 0].depth = C[k].depth + 0
                    /\ D[k + 0].begin = C[k].begin /\ D[k + 0].end = C[k].end
          <5>1. k \in 1 .. c /\ k + 0 = k /\ k \in 1 .. Len(D)
            BY <1>1, <3>1
          <5>2. D[k] = C[k] /\ D[k].depth \in Nat
            BY <1>1, <1>5, <5>1
          <5> QED BY <5>1, <5>2
        <4> QED BY <4>1
      <3>4. PairNested(D, i + 0, j + 0)
        <4>1. 0 \in Nat
          OBVIOUS
        <4> QED BY <1>8, <3>1, <3>2, <3>3, <4>1, PairShift
      <3>5. i + 0 = i /\ j + 0 = j
        BY <3>1
      <3> QED BY <3>4, <3>5
    <2>2. CASE i <= c /\ c < j
      <3>1. D[i] = C[i] /\ i \in 1 .. c
        BY <1>1, <2>2
      <3>2. D[c + 1] = R[1] /\ c + 1 \in i + 1 .. j
        BY <1>1, <1>3, <2>2
      <3>3. Within(C[i], 1, pa.begin, nd.begin) /\ D[i].depth \in Nat
        BY <1>4, <1>5, <3>1
      <3>4. ~(D[i].depth < D[c + 1].depth)
        BY <1>3, <3>1, <3>2, <3>3 DEF Within
      <3>5. ~Below(D, i, j)
        BY <3>2, <3>4 DEF Below
      <3>6. D[j] = R[j - c] /\ j - c \in 1 .. Len(R)
        BY <1>1, <1>6, <2>2
      <3>7. D[i].end <= nd.begin /\ nd.begin <= D[j].begin
        BY <1>3, <3>1, <3>3, <3>6 DEF Within
      <3>8. D[i].end <= D[j].begin
        BY <1>2, <1>5, <3>7
      <3> QED BY <3>5, <3>8 DEF PairNested
    <2>3. CASE c < i
      <3> DEFINE x == i - c
                 z == j - c
      <3>1. x \in 1 .. Len(R) /\ z \in 1 .. Len(R) /\ x < z /\ x + c = i /\ z + c = j
            /\ x \in Nat /\ z \in Nat
        BY <1>1, <1>8, <2>3
      <3> HIDE DEF x, z
      <3>2. PairNested(R, x, z)
        BY <1>3, <3>1 DEF Nested
      <3>3. \A k \in x .. z : /\ R[k].depth \in Nat /\ D[k + c].depth = R[k].depth + 0
                              /\ D[k + c].begin = R[k].begin /\ D[k + c].end = R[k].end
        <4>1. ASSUME NEW k \in x .. z
              PROVE /\ R[k].depth \in Nat /\ D[k + c].depth = R[k].depth + 0
                    /\ D[k + c].begin = R[k].begin /\ D[k + c].end = R[k].end
          <5>1. k \in 1 .. Len(R) /\ k + c = c + k /\ k + c \in 1 .. Len(D)
            BY <1>1, <3>1
          <5>2. D[k + c] = R[k] /\ D[k + c].depth \in Nat
            BY <1>1, <1>5, <5>1
          <5> QED BY <5>2
        <4> QED BY <4>1
      <3>4. PairNested(D, x + c, z + c)
        <4>1. 0 \in Nat
          OBVIOUS
        <4> QED BY <1>1, <3>1, <3>2, <3>3, <4>1, PairShift
      <3> QED BY <3>1, <3>4
    <2> QED BY <1>1, <2>1, <2>2, <2>3
  <1> QED BY <1>7, <1>8 DEF Forest, Nested, D

(* The open nodes, at the time now: each begins after the finished children *)
(* of the one below, which all have ended by then.                         *)
NodeOpen(nd, rg, now) ==
    /\ rg.begin <= nd.begin /\ nd.begin <= now /\ now <= rg.end /\ nd.end = rg.end

StackOk(st, rg, now) ==
    /\ st \in Seq(NodeType) /\ now \in Nat
    /\ \A x \in 1 .. Len(st) : NodeOpen(st[x], rg, now)
    /\ \A x \in 1 .. Len(st) - 1 :
          st[x].begin <= st[x + 1].begin /\ Forest(st[x].children, st[x].begin, st[x + 1].begin)
    /\ st # <<>> => Forest(st[Len(st)].children, st[Len(st)].begin, now)

(* What the finished children are. *)
Closed(st) == UNION {Spans(st[x].children) : x \in 1 .. Len(st)}

Thread(rg) == Node(-1, RootHash, rg.begin, rg.end, <<>>)

(* add_child_to_top *)
Added(rg, rest, nd) ==
    IF rest = <<>> THEN <<PushChild(Thread(rg), nd)>>
    ELSE Append(Front(rest), PushChild(Last(rest), nd))

NewNode(nd, id, hash, b, e) ==
    /\ nd \in NodeType /\ nd.id = id /\ nd.hash = hash /\ nd.begin = b /\ nd.end = e
    /\ nd.children = <<>> /\ Spans(nd.children) = {}

(* A new node has the fields it is given and no children. *)
LEMMA NodeIs ==
  ASSUME NEW id \in Int, NEW hash \in Hashes, NEW b \in Nat, NEW e \in Nat
  PROVE  NewNode(Node(id, hash, b, e, <<>>), id, hash, b, e)
  BY DEF Node, NodeType, Spans, NewNode

(* The fields of a range. *)
LEMMA RangeFields ==
  ASSUME NEW rg \in RangeType
  PROVE  rg.begin \in Nat /\ rg.end \in Nat /\ rg.limit \in Int
  BY DEF RangeType

(* The thread's own node spans the whole range. *)
LEMMA ThreadIs ==
  ASSUME NEW rg \in RangeType
  PROVE  LET nd == Thread(rg) IN
         /\ nd \in NodeType /\ nd.id = -1 /\ nd.hash = RootHash /\ nd.begin = rg.begin
         /\ nd.end = rg.end /\ nd.children = <<>> /\ Spans(nd.children) = {}
  <1>1. -1 \in Int /\ RootHash \in Hashes /\ rg.begin \in Nat /\ rg.end \in Nat
    BY RangeFields DEF Hashes
  <1> QED BY <1>1 DEF Thread, Node, NodeType, Spans

(* A span is opened. *)
LEMMA StackPush ==
  ASSUME NEW rg \in RangeType, NEW st, NEW now, StackOk(st, rg, now), NEW nd \in NodeType,
         now <= nd.begin, rg.begin <= nd.begin, nd.begin <= rg.end, nd.end = rg.end,
         nd.children = <<>>
  PROVE  StackOk(Append(st, nd), rg, nd.begin) /\ Closed(Append(st, nd)) = Closed(st)
  <1> DEFINE new == Append(st, nd)
             n == Len(st)
  <1>1. st \in Seq(NodeType) /\ now \in Nat /\ nd.begin \in Nat /\ nd.end \in Nat /\ n \in Nat
        /\ rg.begin \in Nat /\ rg.end \in Nat
    BY NodeFields, RangeFields, LenProperties DEF StackOk
  <1>2. /\ new \in Seq(NodeType) /\ Len(new) = n + 1
        /\ \A i \in 1 .. n : new[i] = st[i]
        /\ new[n + 1] = nd
    BY <1>1, AppendIs
  <1> HIDE DEF new
  <1>3. \A x \in 1 .. n : st[x] \in NodeType /\ st[x].begin \in Nat /\ st[x].children \in Seq(RowType)
    BY <1>1, ElementOfSeq, NodeFields
  <1>4. ASSUME NEW x \in 1 .. Len(new) PROVE NodeOpen(new[x], rg, nd.begin)
    <2>1. CASE x = n + 1
      BY <1>1, <1>2, <2>1 DEF NodeOpen
    <2>2. CASE x # n + 1
      <3>1. x \in 1 .. n /\ new[x] = st[x]
        BY <1>1, <1>2, <2>2
      <3>2. NodeOpen(st[x], rg, now)
        BY <3>1 DEF StackOk
      <3> QED BY <1>1, <1>3, <3>1, <3>2 DEF NodeOpen
    <2> QED BY <2>1, <2>2
  <1>5. ASSUME NEW x \in 1 .. Len(new) - 1
        PROVE  /\ new[x].begin <= new[x + 1].begin
               /\ Forest(new[x].children, new[x].begin, new[x + 1].begin)
    <2>1. x \in 1 .. n /\ new[x] = st[x]
      BY <1>1, <1>2
    <2>2. CASE x = n
      <3>1. new[x + 1] = nd /\ st # <<>> /\ n \in 1 .. n
        BY <1>1, <1>2, <2>1, <2>2
      <3>2. Forest(st[n].children, st[n].begin, now) /\ NodeOpen(st[n], rg, now)
        BY <3>1 DEF StackOk
      <3>3. Forest(st[n].children, st[n].begin, nd.begin)
        BY <1>1, <1>3, <3>1, <3>2, ForestGrows
      <3>4. st[n].begin <= nd.begin
        BY <1>1, <1>3, <3>1, <3>2 DEF NodeOpen
      <3> QED BY <2>1, <2>2, <3>1, <3>3, <3>4
    <2>3. CASE x # n
      <3>1. x \in 1 .. n - 1 /\ x + 1 \in 1 .. n /\ new[x + 1] = st[x + 1]
        BY <1>1, <1>2, <2>1, <2>3
      <3> QED BY <2>1, <3>1 DEF StackOk
    <2> QED BY <2>2, <2>3
  <1>6. Forest(new[Len(new)].children, new[Len(new)].begin, nd.begin)
    BY <1>2, ForestEmpty
  <1>7. StackOk(new, rg, nd.begin)
    BY <1>1, <1>2, <1>4, <1>5, <1>6 DEF StackOk
  <1>8. Closed(new) = Closed(st)
    <2>1. Spans(nd.children) = {}
      BY DEF Spans
    <2>2. \A x \in 1 .. Len(new) : (x \in 1 .. n /\ new[x] = st[x]) \/ Spans(new[x].children) = {}
      BY <1>1, <1>2, <2>1
    <2>3. \A x \in 1 .. n : x \in 1 .. Len(new) /\ new[x] = st[x]
      BY <1>1, <1>2
    <2> QED BY <2>2, <2>3 DEF Closed
  <1> QED BY <1>7, <1>8 DEF new

(* The node on top, and what is left below it. *)
LEMMA StackPop ==
  ASSUME NEW rg \in RangeType, NEW st, NEW now, StackOk(st, rg, now), st # <<>>
  PROVE  LET top == Last(st) IN
         /\ StackOk(Front(st), rg, top.begin)
         /\ top = st[Len(st)] /\ top \in NodeType /\ NodeOpen(top, rg, now)
         /\ Forest(top.children, top.begin, now)
         /\ Closed(st) = Closed(Front(st)) \cup Spans(top.children)
         /\ Front(st) \in Seq(NodeType) /\ Len(Front(st)) = Len(st) - 1 /\ Len(st) \in Nat \ {0}
         /\ \A x \in 1 .. Len(st) - 1 : Front(st)[x] = st[x]
  <1> DEFINE top == Last(st)
             f == Front(st)
             n == Len(st)
  <1>1. st \in Seq(NodeType) /\ now \in Nat
    BY DEF StackOk
  <1>2. /\ n \in Nat \ {0} /\ top = st[n] /\ top \in NodeType
        /\ f \in Seq(NodeType) /\ Len(f) = n - 1
        /\ \A x \in 1 .. n - 1 : f[x] = st[x]
    BY <1>1, FrontIs
  <1> HIDE DEF top, f, n
  <1>3. n \in 1 .. n
    BY <1>2
  <1>4. NodeOpen(top, rg, now) /\ Forest(top.children, top.begin, now)
    BY <1>2, <1>3 DEF StackOk, n
  <1>5. rg.begin \in Nat /\ rg.end \in Nat /\ top.begin \in Nat
    BY <1>2, NodeFields, RangeFields
  <1>6. \A x \in 1 .. n : st[x].begin \in Nat
    BY <1>1, ElementOfSeq, NodeFields DEF n
  <1>7. \A x \in 1 .. n - 1 : st[x].begin <= st[x + 1].begin
                              /\ Forest(st[x].children, st[x].begin, st[x + 1].begin)
    BY DEF StackOk, n
  <1>8. \A x \in 1 .. n : st[x].begin <= top.begin
    <2> DEFINE S == {d \in Nat : n - d >= 1 => st[n - d].begin <= top.begin}
    <2>1. 0 \in S
      BY <1>2, <1>5
    <2>2. ASSUME NEW d \in Nat, d \in S PROVE d + 1 \in S
      <3> SUFFICES ASSUME n - (d + 1) >= 1 PROVE st[n - (d + 1)].begin <= top.begin
        OBVIOUS
      <3> DEFINE y == n - (d + 1)
      <3>1. y \in 1 .. n - 1 /\ y + 1 = n - d /\ y \in 1 .. n /\ n - d \in 1 .. n
        BY <1>2
      <3> HIDE DEF y
      <3>2. st[n - d].begin <= top.begin /\ st[y].begin <= st[y + 1].begin
        BY <1>7, <2>2, <3>1
      <3>3. st[n - d].begin \in Nat /\ st[y].begin \in Nat
        BY <1>6, <3>1
      <3>4. st[y].begin <= top.begin
        BY <1>5, <3>1, <3>2, <3>3
      <3> QED BY <3>4 DEF y
    <2>3. Nat \subseteq S
      <3> HIDE DEF S
      <3> QED BY <2>1, <2>2, Induction
    <2>4. ASSUME NEW x \in 1 .. n PROVE st[x].begin <= top.begin
      <3>1. n - x \in Nat /\ n - (n - x) = x /\ n - (n - x) >= 1
        BY <1>2
      <3>2. n - x \in S
        <4> HIDE DEF S
        <4> QED BY <2>3, <3>1
      <3> QED BY <3>1, <3>2
    <2> QED BY <2>4
  <1>9. StackOk(f, rg, top.begin)
    <2>1. ASSUME NEW x \in 1 .. Len(f) PROVE NodeOpen(f[x], rg, top.begin)
      <3>1. x \in 1 .. n - 1 /\ x \in 1 .. n
        BY <1>2
      <3>2. NodeOpen(st[x], rg, now) /\ f[x] = st[x]
        BY <1>2, <3>1 DEF StackOk, n
      <3> QED BY <1>1, <1>4, <1>5, <1>8, <3>1, <3>2 DEF NodeOpen
    <2>2. ASSUME NEW x \in 1 .. Len(f) - 1
          PROVE  f[x].begin <= f[x + 1].begin /\ Forest(f[x].children, f[x].begin, f[x + 1].begin)
      <3>1. x \in 1 .. n - 1 /\ x + 1 \in 1 .. n - 1
        BY <1>2
      <3> QED BY <1>2, <1>7, <3>1
    <2>3. ASSUME f # <<>> PROVE Forest(f[Len(f)].children, f[Len(f)].begin, top.begin)
      <3>1. Len(f) \in Nat \ {0}
        BY <1>2, <2>3, EmptySeq, LenProperties
      <3>2. n - 1 \in 1 .. n - 1 /\ (n - 1) + 1 = n /\ Len(f) = n - 1
        BY <1>2, <3>1
      <3>3. Forest(st[n - 1].children, st[n - 1].begin, st[(n - 1) + 1].begin)
        BY <1>7, <3>2
      <3>4. f[n - 1] = st[n - 1]
        BY <1>2, <3>2
      <3> QED BY <1>2, <3>2, <3>3, <3>4
    <2> QED BY <1>2, <1>5, <2>1, <2>2, <2>3 DEF StackOk
  <1>10. Closed(st) = Closed(f) \cup Spans(top.children)
    <2>1. \A x \in 1 .. n : (x \in 1 .. Len(f) /\ st[x] = f[x]) \/ st[x] = top
      BY <1>2
    <2>2. n \in 1 .. n /\ \A x \in 1 .. Len(f) : x \in 1 .. n /\ st[x] = f[x]
      BY <1>2
    <2> QED BY <1>2, <2>1, <2>2 DEF Closed, n
  <1> QED BY <1>2, <1>4, <1>9, <1>10 DEF f, n, top

(* A span is closed and becomes a child. *)
LEMMA StackAdd ==
  ASSUME NEW rg \in RangeType, NEW rest, NEW nd \in NodeType, StackOk(rest, rg, nd.begin),
         rg.begin <= nd.begin, nd.begin <= nd.end, nd.end <= rg.end,
         Forest(nd.children, nd.begin, nd.end)
  PROVE  LET st == Added(rg, rest, nd) IN
         /\ StackOk(st, rg, nd.end)
         /\ Closed(st) = Closed(rest) \cup ({Strip(nd)} \cup Spans(nd.children))
         /\ Len(st) = (IF rest = <<>> THEN 1 ELSE Len(rest))
         /\ rest # <<>> => \A x \in 1 .. Len(rest) :
                             st[x].id = rest[x].id /\ st[x].hash = rest[x].hash
                             /\ st[x].begin = rest[x].begin /\ st[x].end = rest[x].end
         /\ rest = <<>> => st[1].id = -1 /\ st[1].hash = RootHash /\ st[1].begin = rg.begin
                             /\ st[1].end = rg.end
  <1> DEFINE st == Added(rg, rest, nd)
  <1>0. nd.begin \in Nat /\ nd.end \in Nat /\ rg.begin \in Nat /\ rg.end \in Nat
    BY NodeFields, RangeFields
  <1>1. CASE rest = <<>>
    <2> DEFINE pa == Thread(rg)
               new == PushChild(pa, nd)
    <2>1. /\ pa \in NodeType /\ pa.id = -1 /\ pa.hash = RootHash /\ pa.begin = rg.begin
          /\ pa.end = rg.end /\ pa.children = <<>> /\ Spans(pa.children) = {}
      BY ThreadIs
    <2> HIDE DEF pa
    <2>2. /\ new \in NodeType
          /\ new.id = pa.id /\ new.hash = pa.hash /\ new.begin = pa.begin /\ new.end = pa.end
          /\ Spans(new.children) = Spans(pa.children) \cup ({Strip(nd)} \cup Spans(nd.children))
      BY <2>1, PushChildIs
    <2>3. Forest(new.children, pa.begin, nd.end)
      BY <2>1, ForestJoin, ForestEmpty
    <2> HIDE DEF new
    <2>4. st = <<new>>
      BY <1>1 DEF Added, pa, new
    <2>5. st \in Seq(NodeType) /\ Len(st) = 1 /\ st[1] = new /\ st # <<>>
      <3> HIDE DEF st
      <3> QED BY <2>2, <2>4
    <2> HIDE DEF st
    <2>6. NodeOpen(new, rg, nd.end)
      BY <1>0, <2>1, <2>2 DEF NodeOpen
    <2>7. StackOk(st, rg, nd.end)
      BY <1>0, <2>1, <2>2, <2>3, <2>5, <2>6 DEF StackOk
    <2>8. Closed(rest) = {}
      BY <1>1 DEF Closed
    <2>9. Closed(st) = Spans(new.children)
      <3>1. 1 .. Len(st) = {1}
        BY <2>5
      <3> QED BY <2>5, <3>1 DEF Closed
    <2> QED BY <1>1, <2>1, <2>2, <2>5, <2>7, <2>8, <2>9 DEF st
  <1>2. CASE rest # <<>>
    <2> DEFINE pa == Last(rest)
               f == Front(rest)
               new == PushChild(pa, nd)
               n == Len(rest)
    <2>1. /\ StackOk(f, rg, pa.begin)
          /\ pa = rest[n] /\ pa \in NodeType /\ NodeOpen(pa, rg, nd.begin)
          /\ Forest(pa.children, pa.begin, nd.begin)
          /\ Closed(rest) = Closed(f) \cup Spans(pa.children)
          /\ f \in Seq(NodeType) /\ Len(f) = n - 1 /\ n \in Nat \ {0}
          /\ \A x \in 1 .. n - 1 : f[x] = rest[x]
      BY <1>2, StackPop
    <2> HIDE DEF pa, f, n
    <2>2. /\ new \in NodeType
          /\ new.id = pa.id /\ new.hash = pa.hash /\ new.begin = pa.begin /\ new.end = pa.end
          /\ Spans(new.children) = Spans(pa.children) \cup ({Strip(nd)} \cup Spans(nd.children))
      BY <2>1, PushChildIs
    <2>3. Forest(new.children, pa.begin, nd.end)
      BY <2>1, ForestJoin DEF NodeOpen
    <2> HIDE DEF new
    <2>4. st = Append(f, new)
      BY <1>2 DEF Added, pa, new, f
    <2>5. /\ st \in Seq(NodeType) /\ Len(st) = n /\ st[n] = new
          /\ \A x \in 1 .. n - 1 : st[x] = rest[x] /\ st[x] = f[x]
      <3> HIDE DEF st
      <3>1. /\ st \in Seq(NodeType) /\ Len(st) = Len(f) + 1
            /\ \A x \in 1 .. Len(f) : st[x] = f[x]
            /\ st[Len(f) + 1] = new
        BY <2>1, <2>2, <2>4, AppendIs
      <3>2. Len(f) + 1 = n
        BY <2>1
      <3> QED BY <2>1, <3>1, <3>2
    <2> HIDE DEF st
    <2>6. rest \in Seq(NodeType) /\ \A x \in 1 .. n : rest[x] \in NodeType /\ rest[x].begin \in Nat
      BY ElementOfSeq, NodeFields DEF StackOk, n
    <2>7. ASSUME NEW x \in 1 .. n PROVE NodeOpen(st[x], rg, nd.end)
      <3>1. NodeOpen(rest[x], rg, nd.begin)
        BY DEF StackOk, n
      <3>2. st[x].begin = rest[x].begin /\ st[x].end = rest[x].end
        BY <2>1, <2>2, <2>5
      <3> QED BY <1>0, <2>6, <3>1, <3>2 DEF NodeOpen
    <2>8. ASSUME NEW x \in 1 .. n - 1
          PROVE  st[x].begin <= st[x + 1].begin /\ Forest(st[x].children, st[x].begin, st[x + 1].begin)
      <3>1. /\ rest[x].begin <= rest[x + 1].begin
            /\ Forest(rest[x].children, rest[x].begin, rest[x + 1].begin)
        BY DEF StackOk, n
      <3>2. x + 1 \in 1 .. n /\ (x + 1 = n \/ x + 1 \in 1 .. n - 1)
        BY <2>1
      <3>3. st[x + 1].begin = rest[x + 1].begin
        BY <2>1, <2>2, <2>5, <3>2
      <3> QED BY <2>5, <3>1, <3>3
    <2>9. Forest(st[n].children, st[n].begin, nd.end)
      BY <2>2, <2>3, <2>5
    <2>10. StackOk(st, rg, nd.end)
      BY <1>0, <2>5, <2>7, <2>8, <2>9 DEF StackOk
    <2>11. Closed(st) = Closed(f) \cup Spans(new.children)
      <3>1. \A x \in 1 .. Len(st) : (x \in 1 .. Len(f) /\ st[x] = f[x]) \/ st[x] = new
        BY <2>1, <2>5
      <3>2. n \in 1 .. Len(st) /\ \A x \in 1 .. Len(f) : x \in 1 .. Len(st) /\ st[x] = f[x]
        BY <2>1, <2>5
      <3> QED BY <2>5, <3>1, <3>2 DEF Closed
    <2>12. \A x \in 1 .. n : st[x].id = rest[x].id /\ st[x].hash = rest[x].hash
                             /\ st[x].begin = rest[x].begin /\ st[x].end = rest[x].end
      <3>1. \A x \in 1 .. n : x = n \/ x \in 1 .. n - 1
        BY <2>1
      <3> QED BY <2>1, <2>2, <2>5, <3>1
    <2> QED BY <1>2, <2>1, <2>2, <2>5, <2>10, <2>11, <2>12 DEF st, n
  <1> QED BY <1>1, <1>2

-----------------------------------------------------------------------------
(***************************************************************************)
(* finish.                                                                 *)
(***************************************************************************)

(* What finish computes, from the top of the stack downwards. *)
LEMMA FinishIs ==
  ASSUME stack \in Seq(NodeType), stack # <<>>
  PROVE  /\ Len(stack) \in Nat \ {0}
         /\ \A i \in 1 .. Len(stack) : finish[i] \in NodeType
         /\ finish[Len(stack)] = stack[Len(stack)]
         /\ \A i \in 1 .. Len(stack) - 1 : finish[i] = PushChild(stack[i], finish[i + 1])
  <1> DEFINE n == Len(stack)
             F(g) == [i \in 1 .. Len(stack) |->
                        IF i = Len(stack) THEN stack[i] ELSE PushChild(stack[i], g[i + 1])]
             Step == [p \in Nat \X NodeType |->
                        IF p[1] \in 1 .. n - 1 THEN PushChild(stack[n - p[1]], p[2]) ELSE p[2]]
             a == stack[n]
  <1>1. n \in Nat \ {0} /\ \A i \in 1 .. n : stack[i] \in NodeType
    BY LenProperties, ElementOfSeq, EmptySeq
  <1>2. finish = CHOOSE g : g = F(g)
    BY DEF finish
  <1>3. Step \in [Nat \X NodeType -> NodeType]
    <2>1. ASSUME NEW p \in Nat \X NodeType
          PROVE  (IF p[1] \in 1 .. n - 1 THEN PushChild(stack[n - p[1]], p[2]) ELSE p[2]) \in NodeType
      <3>1. p[2] \in NodeType /\ p[1] \in Nat
        OBVIOUS
      <3>2. CASE p[1] \in 1 .. n - 1
        <4>1. n - p[1] \in 1 .. n
          BY <1>1, <3>1, <3>2
        <4>2. stack[n - p[1]] \in NodeType
          BY <1>1, <4>1
        <4>3. PushChild(stack[n - p[1]], p[2]) \in NodeType
          BY <3>1, <4>2, PushChildIs
        <4> QED BY <3>2, <4>3
      <3>3. CASE ~(p[1] \in 1 .. n - 1)
        BY <3>1, <3>3
      <3> QED BY <3>2, <3>3
    <2> HIDE DEF n
    <2> QED BY <2>1
  <1>4. a \in NodeType /\ n - 1 \in Nat
    BY <1>1
  <1>5. PICK f \in [0 .. n - 1 -> NodeType] : Repeats(f, n - 1, a, Step)
    <2> HIDE DEF Step, a, n
    <2> QED BY <1>3, <1>4, Recursion
  <1> DEFINE h == [i \in 1 .. n |-> f[n - i]]
  <1>6. h = F(h)
    <2>1. ASSUME NEW i \in 1 .. n PROVE h[i] = F(h)[i]
      <3>1. n - i \in 0 .. n - 1 /\ h[i] = f[n - i]
        BY <1>1
      <3>2. CASE i = n
        <4>1. n - i = 0
          BY <1>1, <3>2
        <4>2. h[i] = a
          BY <1>5, <3>1, <4>1 DEF Repeats
        <4> HIDE DEF h
        <4> QED BY <3>2, <4>2
      <3>3. CASE i # n
        <4> DEFINE k == n - i
        <4>1. k \in 1 .. n - 1 /\ k - 1 = n - (i + 1) /\ i + 1 \in 1 .. n /\ n - k = i
              /\ k - 1 \in 0 .. n - 1 /\ k \in Nat
          BY <1>1, <3>3
        <4>2. f[k] = Step[<<k, f[k - 1]>>] /\ f[k - 1] \in NodeType
          <5> HIDE DEF k, Step
          <5> QED BY <1>5, <4>1 DEF Repeats
        <4>3. <<k, f[k - 1]>> \in Nat \X NodeType
          <5> HIDE DEF k
          <5> QED BY <4>1, <4>2
        <4>4. Step[<<k, f[k - 1]>>] = PushChild(stack[n - k], f[k - 1])
          <5> HIDE DEF k, n
          <5> QED BY <4>1, <4>3
        <4>5. h[i + 1] = f[k - 1]
          <5> HIDE DEF k
          <5> QED BY <4>1
        <4>6. h[i] = PushChild(stack[i], h[i + 1])
          <5>1. h[i] = f[k]
            BY <3>1
          <5> HIDE DEF k, h
          <5> QED BY <4>1, <4>2, <4>4, <4>5, <5>1
        <4> HIDE DEF h, k
        <4> QED BY <3>3, <4>6
      <3> QED BY <3>2, <3>3
    <2>2. DOMAIN h = 1 .. n /\ DOMAIN F(h) = 1 .. n
      OBVIOUS
    <2> QED BY <2>1
  <1>7. finish = F(finish)
    <2> HIDE DEF F, h
    <2> QED BY <1>2, <1>6
  <1>8. /\ finish[n] = stack[n]
        /\ \A i \in 1 .. n - 1 : finish[i] = PushChild(stack[i], finish[i + 1])
    <2>1. n \in 1 .. n /\ \A i \in 1 .. n - 1 : i \in 1 .. n /\ i # n
      BY <1>1
    <2>2. \A i \in 1 .. n : finish[i] = IF i = n THEN stack[i] ELSE PushChild(stack[i], finish[i + 1])
      BY <1>7
    <2> HIDE DEF n
    <2> QED BY <2>1, <2>2
  <1>9. \A i \in 1 .. n : finish[i] \in NodeType
    <2> HIDE DEF n
    <2> DEFINE S == {d \in Nat : n - d >= 1 => finish[n - d] \in NodeType}
    <2>1. 0 \in S
      <3>1. n - 0 = n /\ n \in 1 .. n
        BY <1>1
      <3>2. finish[n - 0] \in NodeType
        BY <1>1, <1>8, <3>1
      <3> QED BY <3>2
    <2>2. ASSUME NEW d \in Nat, d \in S PROVE d + 1 \in S
      <3> SUFFICES ASSUME n - (d + 1) >= 1 PROVE finish[n - (d + 1)] \in NodeType
        OBVIOUS
      <3> DEFINE y == n - (d + 1)
      <3>1. y \in 1 .. n - 1 /\ y + 1 = n - d /\ y \in 1 .. n /\ n - d >= 1
        BY <1>1
      <3> HIDE DEF y
      <3>2. finish[n - d] \in NodeType
        BY <2>2, <3>1
      <3>3. PushChild(stack[y], finish[n - d]) \in NodeType
        BY <1>1, <3>1, <3>2, PushChildIs
      <3>4. finish[y] \in NodeType
        BY <1>8, <3>1, <3>3
      <3> QED BY <3>4 DEF y
    <2>3. Nat \subseteq S
      <3> HIDE DEF S
      <3> QED BY <2>1, <2>2, Induction
    <2>4. ASSUME NEW x \in 1 .. n PROVE finish[x] \in NodeType
      <3>1. n - x \in Nat /\ n - (n - x) = x /\ n - (n - x) >= 1
        BY <1>1
      <3>2. n - x \in S
        <4> HIDE DEF S
        <4> QED BY <2>3, <3>1
      <3> QED BY <3>1, <3>2
    <2> QED BY <2>4
  <1> QED BY <1>1, <1>8, <1>9

(* The spans of the nodes from i on: those closed, and those above i. *)
From(st, i) ==
    (UNION {Spans(st[x].children) : x \in i .. Len(st)}) \cup {Strip(st[x]) : x \in i + 1 .. Len(st)}

Finished(nd, st, rg, i) ==
    /\ nd \in NodeType
    /\ nd.id = st[i].id /\ nd.hash = st[i].hash /\ nd.begin = st[i].begin /\ nd.end = st[i].end
    /\ Forest(nd.children, nd.begin, rg.end)
    /\ Spans(nd.children) = From(st, i)

(* finish turns the open nodes into one tree that holds them all. *)
LEMMA FinishedNode ==
  ASSUME NEW rg \in RangeType, NEW now, StackOk(stack, rg, now), stack # <<>>
  PROVE  Finished(finish[1], stack, rg, 1)
  <1> DEFINE n == Len(stack)
             S == {d \in Nat : n - d >= 1 => Finished(finish[n - d], stack, rg, n - d)}
  <1>1. stack \in Seq(NodeType) /\ now \in Nat /\ rg.end \in Nat
    BY RangeFields DEF StackOk
  <1>2. /\ n \in Nat \ {0}
        /\ \A i \in 1 .. n : finish[i] \in NodeType
        /\ finish[n] = stack[n]
        /\ \A i \in 1 .. n - 1 : finish[i] = PushChild(stack[i], finish[i + 1])
    BY <1>1, FinishIs
  <1>3. \A i \in 1 .. n : /\ stack[i] \in NodeType /\ stack[i].begin \in Nat /\ stack[i].end \in Nat
                          /\ stack[i].children \in Seq(RowType)
    BY <1>1, ElementOfSeq, NodeFields
  <1>4. \A i \in 1 .. n : NodeOpen(stack[i], rg, now)
    BY DEF StackOk
  <1>5. \A i \in 1 .. n - 1 : /\ stack[i].begin <= stack[i + 1].begin
                              /\ Forest(stack[i].children, stack[i].begin, stack[i + 1].begin)
    BY DEF StackOk
  <1>6. Forest(stack[n].children, stack[n].begin, now)
    BY DEF StackOk
  <1> HIDE DEF n
  <1>7. 0 \in S
    <2>1. n - 0 = n /\ n \in 1 .. n /\ now <= rg.end
      BY <1>2, <1>4 DEF NodeOpen
    <2>2. Forest(stack[n].children, stack[n].begin, rg.end)
      BY <1>1, <1>3, <1>6, <2>1, ForestGrows
    <2>3. Spans(stack[n].children) = From(stack, n)
      <3>1. n .. Len(stack) = {n} /\ n + 1 .. Len(stack) = {}
        BY <1>2 DEF n
      <3> QED BY <3>1 DEF From
    <2>4. Finished(finish[n], stack, rg, n)
      BY <1>2, <1>3, <2>1, <2>2, <2>3 DEF Finished
    <2> QED BY <2>1, <2>4
  <1>8. ASSUME NEW d \in Nat, d \in S PROVE d + 1 \in S
    <2> SUFFICES ASSUME n - (d + 1) >= 1
                 PROVE  Finished(finish[n - (d + 1)], stack, rg, n - (d + 1))
      OBVIOUS
    <2> DEFINE y == n - (d + 1)
               z == n - d
    <2>1. y \in 1 .. n - 1 /\ y + 1 = z /\ y \in 1 .. n /\ z \in 1 .. n /\ z >= 1
      BY <1>2
    <2>2. Finished(finish[z], stack, rg, z)
      BY <1>8, <2>1
    <2> HIDE DEF y, z
    <2> DEFINE pa == stack[y]
               nd == finish[z]
               new == finish[y]
    <2>3. new = PushChild(pa, nd) /\ pa \in NodeType /\ nd \in NodeType
      BY <1>2, <1>3, <2>1
    <2>4. /\ nd.begin = stack[z].begin /\ nd.end = stack[z].end /\ Strip(nd) = Strip(stack[z])
          /\ Forest(nd.children, nd.begin, rg.end) /\ Spans(nd.children) = From(stack, z)
      BY <2>2 DEF Finished, Strip
    <2>5. /\ pa.begin <= nd.begin /\ nd.begin <= nd.end /\ nd.end = rg.end
          /\ Forest(pa.children, pa.begin, nd.begin)
      <3>1. /\ rg.begin <= stack[z].begin /\ stack[z].begin <= now /\ now <= rg.end
            /\ stack[z].end = rg.end
        BY <1>4, <2>1 DEF NodeOpen
      <3>2. stack[z].begin <= rg.end
        BY <1>1, <1>3, <2>1, <3>1
      <3> QED BY <1>5, <2>1, <2>4, <3>1, <3>2
    <2> HIDE DEF pa, nd, new
    <2>6. Forest(new.children, pa.begin, rg.end)
      BY <2>3, <2>4, <2>5, ForestJoin
    <2>7. /\ new \in NodeType
          /\ new.id = pa.id /\ new.hash = pa.hash /\ new.begin = pa.begin /\ new.end = pa.end
          /\ Spans(new.children) = Spans(pa.children) \cup ({Strip(nd)} \cup Spans(nd.children))
      BY <2>3, PushChildIs
    <2>8. Spans(new.children) = From(stack, y)
      <3>1. /\ y .. Len(stack) = {y} \cup z .. Len(stack)
            /\ y + 1 .. Len(stack) = {z} \cup z + 1 .. Len(stack)
        BY <1>2, <2>1 DEF n
      <3>2. From(stack, y) = (Spans(stack[y].children) \cup (UNION {Spans(stack[x].children) : x \in z .. Len(stack)}))
                             \cup ({Strip(stack[z])} \cup {Strip(stack[x]) : x \in z + 1 .. Len(stack)})
        BY <3>1 DEF From
      <3>3. From(stack, z) = (UNION {Spans(stack[x].children) : x \in z .. Len(stack)})
                             \cup {Strip(stack[x]) : x \in z + 1 .. Len(stack)}
        BY DEF From
      <3> QED BY <2>4, <2>7, <3>2, <3>3 DEF pa
    <2>9. Finished(new, stack, rg, y)
      BY <2>6, <2>7, <2>8 DEF Finished, pa
    <2> QED BY <2>9 DEF new, y
  <1>9. Nat \subseteq S
    <2> HIDE DEF S
    <2> QED BY <1>7, <1>8, Induction
  <1>10. n - 1 \in Nat /\ n - (n - 1) = 1
    BY <1>2
  <1>11. n - 1 \in S
    <2> HIDE DEF S
    <2> QED BY <1>9, <1>10
  <1> QED BY <1>10, <1>11

(* The rows of a tree that is done. *)
LEMMA TreeRows ==
  ASSUME NEW rg \in RangeType, NEW now, StackOk(stack, rg, now), stack # <<>>,
         NEW r \in Seq(RowType)
  PROVE  LET tree == append_call_tree(<<>>) IN
         /\ tree \in Seq(RowType) /\ Nested(tree)
         /\ Spans(tree) = Closed(stack) \cup {Strip(stack[x]) : x \in 1 .. Len(stack)}
         /\ append_call_tree(r) \in Seq(RowType)
  <1> DEFINE nd == finish[1]
             R == for_each_node_in_tree(nd, 0, 0)
  <1>1. Finished(nd, stack, rg, 1)
    BY FinishedNode
  <1>2. /\ nd \in NodeType /\ Forest(nd.children, nd.begin, nd.end) /\ nd.begin <= nd.end
        /\ Strip(nd) = Strip(stack[1]) /\ Spans(nd.children) = From(stack, 1)
        /\ Len(stack) \in Nat \ {0}
    <2>1. stack \in Seq(NodeType) /\ now \in Nat /\ rg.end \in Nat /\ Len(stack) \in Nat \ {0}
      BY RangeFields, LenProperties, EmptySeq DEF StackOk
    <2>2. 1 \in 1 .. Len(stack)
      BY <2>1
    <2>3. NodeOpen(stack[1], rg, now) /\ stack[1].begin \in Nat
      BY <2>1, <2>2, ElementOfSeq, NodeFields DEF StackOk
    <2>4. stack[1].begin <= stack[1].end /\ stack[1].end = rg.end
      BY <2>1, <2>3 DEF NodeOpen
    <2> QED BY <1>1, <2>1, <2>4 DEF Finished, Strip
  <1> HIDE DEF nd
  <1>3. 0 \in Int /\ 0 \in Nat
    OBVIOUS
  <1>4. R \in Seq(RowType)
    BY <1>2, <1>3, RowsOfNode
  <1>5. Nested(R)
    BY <1>2, <1>3, NodeNested
  <1>6. Spans(R) = {Strip(nd)} \cup Spans(nd.children)
    BY <1>2, <1>3, SpansOfNode
  <1>7. {Strip(nd)} \cup Spans(nd.children) = Closed(stack) \cup {Strip(stack[x]) : x \in 1 .. Len(stack)}
    <2>1. 1 .. Len(stack) = {1} \cup 1 + 1 .. Len(stack)
      BY <1>2
    <2>2. {Strip(stack[x]) : x \in 1 .. Len(stack)} =
            {Strip(stack[1])} \cup {Strip(stack[x]) : x \in 1 + 1 .. Len(stack)}
      BY <2>1
    <2> QED BY <1>2, <2>2 DEF From, Closed
  <1> HIDE DEF R
  <1>8. append_call_tree(<<>>) = <<>> \o R /\ append_call_tree(r) = r \o R
    BY DEF append_call_tree, R, nd
  <1>9. <<>> \o R = R /\ r \o R \in Seq(RowType)
    BY <1>4, ConcatEmptySeq, ConcatProperties
  <1> QED BY <1>4, <1>5, <1>6, <1>7, <1>8, <1>9

-----------------------------------------------------------------------------
(***************************************************************************)
(* The stack and the history.                                              *)
(***************************************************************************)

(* The top node, with its end and perhaps another name, becomes a child. *)
LEMMA StackClose ==
  ASSUME NEW rg \in RangeType, NEW st, NEW now, StackOk(st, rg, now), st # <<>>,
         NEW nd \in NodeType, nd.begin = Last(st).begin, nd.children = Last(st).children,
         now <= nd.end, nd.end <= rg.end
  PROVE  LET rest == Front(st)
             new  == Added(rg, rest, nd) IN
         /\ Len(rest) = Len(st) - 1 /\ Len(st) \in Nat \ {0}
         /\ StackOk(new, rg, nd.end)
         /\ Closed(new) = Closed(st) \cup {Strip(nd)}
         /\ Len(new) = (IF Len(st) = 1 THEN 1 ELSE Len(st) - 1)
         /\ Len(st) # 1 => \A x \in 1 .. Len(st) - 1 :
                             new[x].id = st[x].id /\ new[x].hash = st[x].hash
                             /\ new[x].begin = st[x].begin /\ new[x].end = st[x].end
         /\ Len(st) = 1 => new[1].id = -1 /\ new[1].hash = RootHash /\ new[1].begin = rg.begin
                             /\ new[1].end = rg.end
  <1> DEFINE top == Last(st)
             rest == Front(st)
             new  == Added(rg, rest, nd)
  <1>1. /\ StackOk(rest, rg, top.begin)
        /\ top \in NodeType /\ NodeOpen(top, rg, now)
        /\ Forest(top.children, top.begin, now)
        /\ Closed(st) = Closed(rest) \cup Spans(top.children)
        /\ rest \in Seq(NodeType) /\ Len(rest) = Len(st) - 1 /\ Len(st) \in Nat \ {0}
        /\ \A x \in 1 .. Len(st) - 1 : rest[x] = st[x]
    BY StackPop
  <1> HIDE DEF top, rest
  <1>2. nd.begin = top.begin /\ nd.children = top.children
    BY DEF top
  <1>3. now \in Nat /\ nd.end \in Nat /\ nd.begin \in Nat /\ nd.children \in Seq(RowType)
        /\ rg.begin \in Nat /\ rg.end \in Nat
    BY NodeFields, RangeFields DEF StackOk
  <1>4. rg.begin <= nd.begin /\ nd.begin <= now
    BY <1>1, <1>2 DEF NodeOpen
  <1>5. nd.begin <= nd.end
    BY <1>3, <1>4
  <1>6. Forest(nd.children, nd.begin, nd.end)
    BY <1>1, <1>2, <1>3, ForestGrows
  <1>7. /\ StackOk(new, rg, nd.end)
        /\ Closed(new) = Closed(rest) \cup ({Strip(nd)} \cup Spans(nd.children))
        /\ Len(new) = (IF rest = <<>> THEN 1 ELSE Len(rest))
        /\ rest # <<>> => \A x \in 1 .. Len(rest) :
                            new[x].id = rest[x].id /\ new[x].hash = rest[x].hash
                            /\ new[x].begin = rest[x].begin /\ new[x].end = rest[x].end
        /\ rest = <<>> => new[1].id = -1 /\ new[1].hash = RootHash /\ new[1].begin = rg.begin
                            /\ new[1].end = rg.end
    BY <1>1, <1>2, <1>4, <1>5, <1>6, StackAdd
  <1> HIDE DEF new
  <1>8. rest = <<>> <=> Len(st) = 1
    BY <1>1, EmptySeq, LenProperties
  <1>9. Closed(new) = Closed(st) \cup {Strip(nd)}
    BY <1>1, <1>2, <1>7
  <1>10. Len(st) # 1 => \A x \in 1 .. Len(st) - 1 :
                             new[x].id = st[x].id /\ new[x].hash = st[x].hash
                             /\ new[x].begin = st[x].begin /\ new[x].end = st[x].end
    BY <1>1, <1>7, <1>8
  <1> QED BY <1>1, <1>7, <1>8, <1>9, <1>10 DEF new, rest

-----------------------------------------------------------------------------

T(tr, k) == ticks_to_nanoseconds(tr[k].time)
In(rg, t) == rg.begin <= t /\ t <= rg.end
SpanOf(tr, k, b, e) == [id |-> k - 1, hash |-> tr[k].hash, begin |-> b, end |-> e]

(* The span that was opened last, after the event k. *)
Top(G, k) == G[k][Len(G[k])]

(* The span that the end j closes, when the tree starts at c. *)
ClosedBy(G, tr, rg, c, j) ==
    IF Top(G, j - 1) >= c THEN SpanOf(tr, Top(G, j - 1), T(tr, Top(G, j - 1)), T(tr, j))
    ELSE SpanOf(tr, j, rg.begin, T(tr, j))

ClosedSpans(G, tr, rg, c, e) == {ClosedBy(G, tr, rg, c, j) : j \in {k \in c .. e : tr[k].kind = "end"}}

OpenNode(nd, tr, rg, i) ==
    nd.id = i - 1 /\ nd.hash = tr[i].hash /\ nd.begin = T(tr, i) /\ nd.end = rg.end

RootNode(nd, rg) ==
    nd.id = -1 /\ nd.hash = RootHash /\ nd.begin = rg.begin /\ nd.end = rg.end

(* The tree after the events from c to e, which lie in the range: on the   *)
(* stack are, above the thread's node if there is one (r is 1), the spans  *)
(* that began at c or later and are open; the spans below them began       *)
(* before; and the children are the spans that were closed.                *)
Sync(G, tr, rg, c, e, r, st) ==
    /\ Len(st) \in Nat \ {0} /\ r \in {0, 1}
    /\ r = 1 => RootNode(st[1], rg)
    /\ Len(st) - r <= Len(G[e])
    /\ \A x \in r + 1 .. Len(st) :
          /\ G[e][Len(G[e]) - Len(st) + x] \in c .. e
          /\ OpenNode(st[x], tr, rg, G[e][Len(G[e]) - Len(st) + x])
    /\ \A y \in 1 .. Len(G[e]) - (Len(st) - r) : G[e][y] < c
    /\ Closed(st) = ClosedSpans(G, tr, rg, c, e)

InSync(G, tr, rg, D, st) ==
    IF D = {} THEN st = <<>>
    ELSE \E c, e \in Nat, r \in {0, 1} : c <= e /\ D = c .. e /\ Sync(G, tr, rg, c, e, r, st)

(* A begin ends no span. *)
LEMMA ClosedSpansBegin ==
  ASSUME NEW G, NEW tr, NEW rg, NEW c \in Nat, NEW n \in Nat, c <= n, tr[n].kind = "begin"
  PROVE  ClosedSpans(G, tr, rg, c, n) = ClosedSpans(G, tr, rg, c, n - 1)
  <1>1. tr[n].kind # "end"
    OBVIOUS
  <1>2. {k \in c .. n : tr[k].kind = "end"} = {k \in c .. n - 1 : tr[k].kind = "end"}
    BY <1>1
  <1> QED BY <1>2 DEF ClosedSpans

(* An end adds the one span it ends. *)
LEMMA ClosedSpansEnd ==
  ASSUME NEW G, NEW tr, NEW rg, NEW c \in Nat, NEW n \in Nat, c <= n, tr[n].kind = "end"
  PROVE  ClosedSpans(G, tr, rg, c, n) =
           ClosedSpans(G, tr, rg, c, n - 1) \cup {ClosedBy(G, tr, rg, c, n)}
  <1>2. {k \in c .. n : tr[k].kind = "end"} = {k \in c .. n - 1 : tr[k].kind = "end"} \cup {n}
    OBVIOUS
  <1> QED BY <1>2 DEF ClosedSpans

(* When only the thread's node is open. *)
LEMMA SyncThread ==
  ASSUME NEW G, NEW tr, NEW rg, NEW c, NEW e, NEW st, Len(st) = 1, RootNode(st[1], rg),
         Len(G[e]) \in Nat, \A y \in 1 .. Len(G[e]) : G[e][y] < c,
         Closed(st) = ClosedSpans(G, tr, rg, c, e)
  PROVE  Sync(G, tr, rg, c, e, 1, st)
  <1> DEFINE L == Len(G[e])
  <1>1. L \in Nat /\ \A y \in 1 .. L : G[e][y] < c
    OBVIOUS
  <1> HIDE DEF L
  <1>2. 1 - 1 <= L /\ 1 + 1 .. 1 = {} /\ L - (1 - 1) = L
    BY <1>1
  <1>3. \A y \in 1 .. L - (1 - 1) : G[e][y] < c
    BY <1>1, <1>2
  <1> QED BY <1>2, <1>3 DEF Sync, L

(* The first event in the range is a begin. *)
LEMMA SyncFirstBegin ==
  ASSUME NEW tr \in Seq(EventType), NEW G, History(G, tr), NEW rg, NEW n \in 1 .. Len(tr),
         tr[n].kind = "begin",
         NEW st \in Seq(NodeType), Len(st) = 1, OpenNode(st[1], tr, rg, n), Closed(st) = {}
  PROVE  Sync(G, tr, rg, n, n, 0, st)
  <1>1. Stepped(G, tr, n - 1, n) /\ OpenEntries(G, tr, n - 1) /\ n \in Nat
    <2>1. n - 1 \in 0 .. Len(tr)
      BY LenProperties
    <2> QED BY <2>1, HistoryStep, HistoryEntries
  <1> DEFINE L == Len(G[n])
  <1>2. /\ L \in Nat /\ L = Len(G[n - 1]) + 1 /\ Len(G[n - 1]) \in Nat /\ G[n][L] = n
        /\ \A y \in 1 .. Len(G[n - 1]) : G[n][y] = G[n - 1][y]
    BY <1>1 DEF Stepped
  <1>3. \A y \in 1 .. Len(G[n - 1]) : G[n - 1][y] < n
    BY <1>1 DEF OpenEntries
  <1> HIDE DEF L
  <1>4. \A y \in 1 .. L - (1 - 0) : G[n][y] < n
    BY <1>2, <1>3
  <1>5. ASSUME NEW x \in 0 + 1 .. 1 PROVE x = 1 /\ L - 1 + x = L
    BY <1>2
  <1>6. ClosedSpans(G, tr, rg, n, n) = {}
    <2>1. {k \in n .. n : tr[k].kind = "end"} = {}
      BY <1>1
    <2> QED BY <2>1 DEF ClosedSpans
  <1>7. n \in n .. n
    BY <1>1
  <1>8. 1 - 0 <= L
    BY <1>2
  <1> QED BY <1>2, <1>4, <1>5, <1>6, <1>7, <1>8 DEF Sync, L

(* A later one. *)
LEMMA SyncBegin ==
  ASSUME NEW tr \in Seq(EventType), NEW G, History(G, tr), NEW rg, NEW n \in 1 .. Len(tr),
         tr[n].kind = "begin", NEW c \in Nat, c <= n - 1, NEW r,
         NEW st, Sync(G, tr, rg, c, n - 1, r, st),
         NEW new, Len(new) = Len(st) + 1, \A x \in 1 .. Len(st) : new[x] = st[x],
         OpenNode(new[Len(st) + 1], tr, rg, n), Closed(new) = Closed(st)
  PROVE  Sync(G, tr, rg, c, n, r, new)
  <1> DEFINE L == Len(G[n])
             K == Len(G[n - 1])
             s == Len(st)
  <1>1. Stepped(G, tr, n - 1, n) /\ n \in Nat
    BY HistoryStep, LenProperties
  <1>2. /\ L \in Nat /\ L = K + 1 /\ K \in Nat /\ G[n][L] = n
        /\ \A y \in 1 .. K : G[n][y] = G[n - 1][y]
    BY <1>1 DEF Stepped
  <1>3. /\ s \in Nat \ {0} /\ r \in {0, 1} /\ s - r <= K
        /\ r = 1 => RootNode(st[1], rg)
        /\ \A x \in r + 1 .. s : G[n - 1][K - s + x] \in c .. n - 1 /\ OpenNode(st[x], tr, rg, G[n - 1][K - s + x])
        /\ \A y \in 1 .. K - (s - r) : G[n - 1][y] < c
        /\ Closed(st) = ClosedSpans(G, tr, rg, c, n - 1)
    BY DEF Sync
  <1>4. Len(new) = s + 1 /\ (\A x \in 1 .. s : new[x] = st[x]) /\ OpenNode(new[s + 1], tr, rg, n)
    OBVIOUS
  <1> HIDE DEF L, K, s
  <1>5. s + 1 \in Nat \ {0} /\ (s + 1) - r <= L /\ (r = 1 => RootNode(new[1], rg))
    BY <1>2, <1>3, <1>4
  <1>6. ASSUME NEW x \in r + 1 .. s + 1
        PROVE  G[n][L - (s + 1) + x] \in c .. n /\ OpenNode(new[x], tr, rg, G[n][L - (s + 1) + x])
    <2>1. CASE x = s + 1
      <3>1. L - (s + 1) + x = L /\ n \in c .. n
        BY <1>1, <1>2, <1>3, <2>1
      <3> QED BY <1>2, <1>4, <2>1, <3>1
    <2>2. CASE x # s + 1
      <3>1. x \in r + 1 .. s /\ x \in 1 .. s /\ L - (s + 1) + x = K - s + x /\ K - s + x \in 1 .. K
        BY <1>2, <1>3, <2>2
      <3>2. G[n - 1][K - s + x] \in c .. n - 1 /\ OpenNode(st[x], tr, rg, G[n - 1][K - s + x])
        BY <1>3, <3>1
      <3>3. G[n][K - s + x] = G[n - 1][K - s + x] /\ new[x] = st[x]
        BY <1>2, <1>4, <3>1
      <3>4. G[n][K - s + x] \in c .. n
        BY <1>1, <3>2, <3>3
      <3> QED BY <3>1, <3>2, <3>3, <3>4
    <2> QED BY <2>1, <2>2
  <1>7. ASSUME NEW y \in 1 .. L - ((s + 1) - r) PROVE G[n][y] < c
    <2>1. y \in 1 .. K - (s - r) /\ y \in 1 .. K
      BY <1>2, <1>3
    <2> QED BY <1>2, <1>3, <2>1
  <1>8. Closed(new) = ClosedSpans(G, tr, rg, c, n)
    <2>1. c <= n
      BY <1>1
    <2> QED BY <1>1, <1>3, <2>1, ClosedSpansBegin
  <1> QED BY <1>3, <1>4, <1>5, <1>6, <1>7, <1>8 DEF Sync, L

(* The first event in the range is an end: its span began before. *)
LEMMA SyncFirstEnd ==
  ASSUME NEW tr \in Seq(EventType), NEW G, History(G, tr), NEW rg, NEW n \in 1 .. Len(tr),
         tr[n].kind = "end",
         NEW st, Len(st) = 1, RootNode(st[1], rg),
         Closed(st) = {SpanOf(tr, n, rg.begin, T(tr, n))}
  PROVE  Sync(G, tr, rg, n, n, 1, st)
  <1>1. Stepped(G, tr, n - 1, n) /\ OpenEntries(G, tr, n - 1) /\ n \in Nat
    <2>1. n - 1 \in 0 .. Len(tr)
      BY LenProperties
    <2> QED BY <2>1, HistoryStep, HistoryEntries
  <1> DEFINE L == Len(G[n])
             K == Len(G[n - 1])
  <1>2. /\ L \in Nat /\ K \in Nat /\ K # 0 /\ L = K - 1
        /\ \A y \in 1 .. L : G[n][y] = G[n - 1][y]
    BY <1>1 DEF Stepped
  <1>3. \A y \in 1 .. K : G[n - 1][y] < n /\ G[n - 1][y] \in Nat
    BY <1>1 DEF OpenEntries
  <1>4. Top(G, n - 1) = G[n - 1][K]
    BY DEF Top
  <1> HIDE DEF L, K
  <1>5. \A y \in 1 .. L : G[n][y] < n
    BY <1>2, <1>3
  <1>6. ~(Top(G, n - 1) >= n)
    BY <1>1, <1>2, <1>3, <1>4
  <1>7. ClosedSpans(G, tr, rg, n, n) = {SpanOf(tr, n, rg.begin, T(tr, n))}
    <2>1. {k \in n .. n : tr[k].kind = "end"} = {n}
      BY <1>1
    <2>2. ClosedBy(G, tr, rg, n, n) = SpanOf(tr, n, rg.begin, T(tr, n))
      BY <1>6 DEF ClosedBy
    <2> QED BY <2>1, <2>2 DEF ClosedSpans
  <1> QED BY <1>2, <1>5, <1>7, SyncThread DEF L

(* A later one closes the top of the stack, which is the span opened last, *)
(* or the thread's node when that span began before.                       *)
LEMMA SyncEnd ==
  ASSUME NEW tr \in Seq(EventType), NEW G, History(G, tr), NEW rg, NEW n \in 1 .. Len(tr),
         tr[n].kind = "end", NEW c \in Nat, c <= n - 1, NEW r,
         NEW st, Sync(G, tr, rg, c, n - 1, r, st),
         NEW new,
         Len(new) = (IF Len(st) = 1 THEN 1 ELSE Len(st) - 1),
         Len(st) # 1 => \A x \in 1 .. Len(st) - 1 :
                             new[x].id = st[x].id /\ new[x].hash = st[x].hash
                             /\ new[x].begin = st[x].begin /\ new[x].end = st[x].end,
         Len(st) = 1 => RootNode(new[1], rg),
         Closed(new) = ClosedSpans(G, tr, rg, c, n)
  PROVE  \E q \in {0, 1} : Sync(G, tr, rg, c, n, q, new)
  <1> DEFINE L == Len(G[n])
             K == Len(G[n - 1])
             s == Len(st)
  <1>1. Stepped(G, tr, n - 1, n) /\ n \in Nat
    BY HistoryStep, LenProperties
  <1>2. /\ L \in Nat /\ K \in Nat /\ K # 0 /\ L = K - 1
        /\ \A y \in 1 .. L : G[n][y] = G[n - 1][y]
    BY <1>1 DEF Stepped
  <1>3. /\ s \in Nat \ {0} /\ r \in {0, 1} /\ s - r <= K
        /\ r = 1 => RootNode(st[1], rg)
        /\ \A x \in r + 1 .. s : G[n - 1][K - s + x] \in c .. n - 1 /\ OpenNode(st[x], tr, rg, G[n - 1][K - s + x])
        /\ \A y \in 1 .. K - (s - r) : G[n - 1][y] < c
        /\ Closed(st) = ClosedSpans(G, tr, rg, c, n - 1)
    BY DEF Sync
  <1>4. Closed(new) = ClosedSpans(G, tr, rg, c, n)
    OBVIOUS
  <1>5. CASE s = 1
    <2>1. Len(new) = 1 /\ RootNode(new[1], rg)
      BY <1>5
    <2> HIDE DEF L, K, s
    <2>3. ASSUME NEW y \in 1 .. L PROVE G[n][y] < c
      <3>1. y \in 1 .. K - (s - r)
        BY <1>2, <1>3, <1>5
      <3> QED BY <1>2, <1>3, <3>1
    <2>4. Sync(G, tr, rg, c, n, 1, new)
      BY <1>2, <1>4, <2>1, <2>3, SyncThread DEF L
    <2> QED BY <2>4
  <1>6. CASE s # 1
    <2>1. /\ Len(new) = s - 1
          /\ \A x \in 1 .. s - 1 : new[x].id = st[x].id /\ new[x].hash = st[x].hash
                                   /\ new[x].begin = st[x].begin /\ new[x].end = st[x].end
      BY <1>6
    <2> HIDE DEF L, K, s
    <2>2. s - 1 \in Nat \ {0} /\ (s - 1) - r <= L /\ 1 \in 1 .. s - 1
      BY <1>2, <1>3, <1>6
    <2>3. r = 1 => RootNode(new[1], rg)
      BY <1>3, <2>1, <2>2 DEF RootNode
    <2>4. ASSUME NEW x \in r + 1 .. s - 1
          PROVE  G[n][L - (s - 1) + x] \in c .. n /\ OpenNode(new[x], tr, rg, G[n][L - (s - 1) + x])
      <3>1. x \in r + 1 .. s /\ x \in 1 .. s - 1 /\ L - (s - 1) + x = K - s + x /\ K - s + x \in 1 .. L
        BY <1>2, <1>3, <2>2
      <3>2. G[n - 1][K - s + x] \in c .. n - 1 /\ OpenNode(st[x], tr, rg, G[n - 1][K - s + x])
        BY <1>3, <3>1
      <3>3. G[n][K - s + x] = G[n - 1][K - s + x]
        BY <1>2, <3>1
      <3>4. G[n][K - s + x] \in c .. n
        BY <1>1, <3>2, <3>3
      <3>5. OpenNode(new[x], tr, rg, G[n - 1][K - s + x])
        BY <2>1, <3>1, <3>2 DEF OpenNode
      <3> QED BY <3>1, <3>3, <3>4, <3>5
    <2>5. ASSUME NEW y \in 1 .. L - ((s - 1) - r) PROVE G[n][y] < c
      <3>1. y \in 1 .. K - (s - r) /\ y \in 1 .. L
        BY <1>2, <1>3, <2>2
      <3> QED BY <1>2, <1>3, <3>1
    <2>6. Sync(G, tr, rg, c, n, r, new)
      BY <1>3, <1>4, <2>1, <2>2, <2>3, <2>4, <2>5 DEF Sync, L
    <2> QED BY <1>3, <2>6
  <1> QED BY <1>5, <1>6

(* What a handler does to the stack, for an event in the range. *)
Pushed(tr, rg, n, st, new) ==
    tr[n].kind = "begin" /\ new = Append(st, Node(n - 1, tr[n].hash, T(tr, n), rg.end, <<>>))

ClosedFirst(tr, rg, n, st, new) ==
    /\ tr[n].kind = "end" /\ st = <<>>
    /\ new = Added(rg, <<>>, Node(n - 1, tr[n].hash, rg.begin, T(tr, n), <<>>))

ClosedTop(tr, rg, n, st, new) ==
    /\ tr[n].kind = "end" /\ st # <<>> /\ Last(st).hash = tr[n].hash
    /\ new = Added(rg, Front(st), [Last(st) EXCEPT !.end = T(tr, n)])

ClosedBefore(tr, rg, n, st, new) ==
    /\ tr[n].kind = "end" /\ st # <<>> /\ Last(st).hash = RootHash
    /\ new = Added(rg, Front(st), [Last(st) EXCEPT !.id = n - 1, !.hash = tr[n].hash, !.end = T(tr, n)])

(* The events before n that lie in the range are the ones just before it. *)
UpTo(D, n) == D # {} => \E c \in Nat \ {0} : c <= n - 1 /\ D = c .. n - 1

(* The fields of an event; its hash is no thread's. *)
LEMMA EventIs ==
  ASSUME NEW tr \in Seq(EventType), NEW n \in 1 .. Len(tr)
  PROVE  /\ n \in Nat /\ n - 1 \in Nat /\ n - 1 \in Int /\ tr[n].hash \in Scopes /\ tr[n].hash \in Hashes
         /\ tr[n].hash # RootHash /\ tr[n].kind \in {"begin", "end"} /\ tr[n].time \in Nat
         /\ T(tr, n) \in Nat
  <1>1. tr[n] \in EventType
    BY ElementOfSeq
  <1>2. tr[n].hash \in Scopes /\ tr[n].kind \in {"begin", "end"} /\ tr[n].time \in Nat
    BY <1>1 DEF EventType
  <1>3. T(tr, n) \in Nat
    BY <1>2, TicksInOrder DEF T
  <1>4. n \in Nat /\ n - 1 \in Nat /\ n - 1 \in Int
    BY LenProperties
  <1> QED BY <1>2, <1>3, <1>4, QueryAssumption DEF Hashes

(* With what has been parsed, the stack is known. *)
LEMMA SyncParts ==
  ASSUME NEW G, NEW tr, NEW rg, NEW n \in Nat, NEW D, UpTo(D, n), NEW st, InSync(G, tr, rg, D, st), D # {}
  PROVE  \E c \in Nat \ {0}, r \in {0, 1} :
            c <= n - 1 /\ D = c .. n - 1 /\ Sync(G, tr, rg, c, n - 1, r, st)
  <1>1. PICK c \in Nat \ {0} : c <= n - 1 /\ D = c .. n - 1
    BY DEF UpTo
  <1>2. PICK a, e \in Nat, r \in {0, 1} : a <= e /\ D = a .. e /\ Sync(G, tr, rg, a, e, r, st)
    BY DEF InSync
  <1>3. a = c /\ e = n - 1
    <2>1. a \in c .. n - 1 /\ e \in c .. n - 1 /\ c \in a .. e /\ n - 1 \in a .. e
      BY <1>1, <1>2
    <2> QED BY <1>1, <1>2, <2>1
  <1> QED BY <1>1, <1>2, <1>3

(* The stack fits the history over one more event. *)
LEMMA SyncMore ==
  ASSUME NEW G, NEW tr, NEW rg, NEW n \in Nat, NEW D, NEW c \in Nat, NEW r \in {0, 1}, NEW st,
         c <= n, D \cup {n} = c .. n, Sync(G, tr, rg, c, n, r, st)
  PROVE  InSync(G, tr, rg, D \cup {n}, st)
  <1>1. D \cup {n} # {}
    OBVIOUS
  <1>2. \E a, e \in Nat, q \in {0, 1} : a <= e /\ D \cup {n} = a .. e /\ Sync(G, tr, rg, a, e, q, st)
    OBVIOUS
  <1> QED BY <1>1, <1>2 DEF InSync

(* Pushing the node of a begin keeps the stack nested and in step with the *)
(* history.                                                                *)
LEMMA StepPushed ==
  ASSUME NEW tr \in Seq(EventType), NEW rg \in RangeType, NEW n \in 1 .. Len(tr), In(rg, T(tr, n)),
         NEW st, NEW now, StackOk(st, rg, now), now <= T(tr, n), NEW new, Pushed(tr, rg, n, st, new)
  PROVE  /\ StackOk(new, rg, T(tr, n))
         /\ \A G, D : History(G, tr) /\ UpTo(D, n) /\ InSync(G, tr, rg, D, st)
                        => InSync(G, tr, rg, D \cup {n}, new)
  <1> DEFINE t == T(tr, n)
             nd == Node(n - 1, tr[n].hash, t, rg.end, <<>>)
             s == Len(st)
  <1>1. /\ n \in Nat /\ n - 1 \in Int /\ tr[n].hash \in Hashes /\ t \in Nat
        /\ rg.begin \in Nat /\ rg.end \in Nat /\ st \in Seq(NodeType)
    BY EventIs, RangeFields DEF StackOk
  <1>2. /\ nd \in NodeType /\ nd.id = n - 1 /\ nd.hash = tr[n].hash /\ nd.begin = t
        /\ nd.end = rg.end /\ nd.children = <<>>
    <2>1. NewNode(nd, n - 1, tr[n].hash, t, rg.end)
      <3> HIDE DEF t
      <3> QED BY <1>1, NodeIs
    <2> HIDE DEF nd, t
    <2> QED BY <2>1 DEF NewNode
  <1>3. new = Append(st, nd) /\ tr[n].kind = "begin" /\ rg.begin <= t /\ t <= rg.end
    BY DEF Pushed, In
  <1>4. OpenNode(nd, tr, rg, n)
    BY <1>2 DEF OpenNode
  <1> HIDE DEF nd, t
  <1>5. StackOk(new, rg, t) /\ Closed(new) = Closed(st)
    <2>1. now <= nd.begin /\ rg.begin <= nd.begin /\ nd.begin <= rg.end
      BY <1>2, <1>3 DEF t
    <2> QED BY <1>2, <1>3, <2>1, StackPush
  <1>6. /\ new \in Seq(NodeType) /\ Len(new) = s + 1 /\ s \in Nat
        /\ \A x \in 1 .. s : new[x] = st[x]
        /\ new[s + 1] = nd
    BY <1>1, <1>2, <1>3, AppendIs
  <1>7. ASSUME NEW G, NEW D, History(G, tr), UpTo(D, n), InSync(G, tr, rg, D, st)
        PROVE  InSync(G, tr, rg, D \cup {n}, new)
    <2>1. CASE D = {}
      <3>1. st = <<>>
        BY <1>7, <2>1 DEF InSync
      <3>2. s = 0 /\ Closed(st) = {}
        BY <3>1 DEF Closed
      <3>3. Len(new) = 1 /\ new[1] = nd /\ Closed(new) = {}
        BY <1>5, <1>6, <3>2
      <3>4. Sync(G, tr, rg, n, n, 0, new)
        BY <1>3, <1>4, <1>6, <1>7, <3>3, SyncFirstBegin
      <3>5. D \cup {n} = n .. n /\ n <= n
        BY <1>1, <2>1
      <3> QED BY <1>1, <3>4, <3>5, SyncMore
    <2>2. CASE D # {}
      <3>1. PICK c \in Nat \ {0}, r \in {0, 1} :
               c <= n - 1 /\ D = c .. n - 1 /\ Sync(G, tr, rg, c, n - 1, r, st)
        BY <1>1, <1>7, <2>2, SyncParts
      <3>2. c \in Nat /\ Sync(G, tr, rg, c, n, r, new)
        <4>1. OpenNode(new[Len(st) + 1], tr, rg, n)
          BY <1>4, <1>6
        <4> QED BY <1>3, <1>5, <1>6, <1>7, <3>1, <4>1, SyncBegin
      <3>3. D \cup {n} = c .. n /\ c <= n
        BY <1>1, <3>1
      <3> QED BY <1>1, <3>2, <3>3, SyncMore
    <2> QED BY <2>1, <2>2
  <1> QED BY <1>5, <1>7 DEF t

(* So does the end that finds no open node: its span began before the      *)
(* range, and the thread's node takes it as its first child.               *)
LEMMA StepClosedFirst ==
  ASSUME NEW tr \in Seq(EventType), NEW rg \in RangeType, NEW n \in 1 .. Len(tr), In(rg, T(tr, n)),
         NEW st, NEW new, ClosedFirst(tr, rg, n, st, new)
  PROVE  /\ StackOk(new, rg, T(tr, n))
         /\ \A G, D : History(G, tr) /\ UpTo(D, n) /\ InSync(G, tr, rg, D, st)
                        => InSync(G, tr, rg, D \cup {n}, new)
  <1> DEFINE t == T(tr, n)
             nd == Node(n - 1, tr[n].hash, rg.begin, t, <<>>)
             nil == <<>>
  <1>1. /\ n \in Nat /\ n - 1 \in Int /\ tr[n].hash \in Hashes /\ t \in Nat
        /\ rg.begin \in Nat /\ rg.end \in Nat
    BY EventIs, RangeFields
  <1>2. /\ nd \in NodeType /\ nd.id = n - 1 /\ nd.hash = tr[n].hash /\ nd.begin = rg.begin
        /\ nd.end = t /\ nd.children = <<>> /\ Spans(nd.children) = {}
    <2>1. NewNode(nd, n - 1, tr[n].hash, rg.begin, t)
      <3> HIDE DEF t
      <3> QED BY <1>1, NodeIs
    <2> HIDE DEF nd, t
    <2> QED BY <2>1 DEF NewNode
  <1>3. new = Added(rg, nil, nd) /\ tr[n].kind = "end" /\ rg.begin <= t /\ t <= rg.end /\ st = nil
    BY DEF ClosedFirst, In
  <1>4. Strip(nd) = SpanOf(tr, n, rg.begin, t)
    BY <1>2 DEF Strip, SpanOf
  <1> HIDE DEF nd, t
  <1>5. StackOk(nil, rg, nd.begin) /\ Closed(nil) = {}
    <2>1. nil \in Seq(NodeType) /\ Len(nil) = 0
      OBVIOUS
    <2> QED BY <1>1, <1>2, <2>1 DEF StackOk, Closed
  <1>6. /\ StackOk(new, rg, nd.end)
        /\ Closed(new) = Closed(nil) \cup ({Strip(nd)} \cup Spans(nd.children))
        /\ Len(new) = 1 /\ RootNode(new[1], rg)
    <2>1. Forest(nd.children, nd.begin, nd.end)
      BY <1>2, ForestEmpty
    <2>2. rg.begin <= nd.begin /\ nd.begin <= nd.end /\ nd.end <= rg.end
      BY <1>1, <1>2, <1>3
    <2>3. LET x == Added(rg, nil, nd) IN
          /\ StackOk(x, rg, nd.end)
          /\ Closed(x) = Closed(nil) \cup ({Strip(nd)} \cup Spans(nd.children))
          /\ Len(x) = (IF nil = <<>> THEN 1 ELSE Len(nil))
          /\ nil = <<>> => x[1].id = -1 /\ x[1].hash = RootHash /\ x[1].begin = rg.begin
                             /\ x[1].end = rg.end
      <3> HIDE DEF nil
      <3> QED BY <1>2, <1>5, <2>1, <2>2, StackAdd
    <2> QED BY <1>3, <2>3 DEF RootNode
  <1>7. ASSUME NEW G, NEW D, History(G, tr), UpTo(D, n), InSync(G, tr, rg, D, st)
        PROVE  InSync(G, tr, rg, D \cup {n}, new)
    <2>1. D = {}
      <3> SUFFICES ASSUME D # {} PROVE FALSE
        OBVIOUS
      <3>1. PICK c \in Nat \ {0}, r \in {0, 1} : Sync(G, tr, rg, c, n - 1, r, st)
        BY <1>1, <1>7, SyncParts
      <3>2. Len(nil) # 0
        BY <1>3, <3>1 DEF Sync
      <3> QED BY <3>2
    <2>2. Closed(new) = {SpanOf(tr, n, rg.begin, T(tr, n))}
      BY <1>2, <1>4, <1>5, <1>6 DEF t
    <2>3. Sync(G, tr, rg, n, n, 1, new)
      BY <1>3, <1>6, <1>7, <2>2, SyncFirstEnd
    <2>4. D \cup {n} = n .. n /\ n <= n
      BY <1>1, <2>1
    <2> QED BY <1>1, <2>3, <2>4, SyncMore
  <1> QED BY <1>2, <1>6, <1>7 DEF t

(* The top node with its end, and perhaps with the name of a span that     *)
(* began before.                                                           *)
Ended(nd, top, tr, n) ==
    /\ nd \in NodeType /\ nd.begin = top.begin /\ nd.children = top.children
    /\ nd.end = T(tr, n) /\ nd.hash = tr[n].hash
    /\ nd.id = IF top.hash = tr[n].hash THEN top.id ELSE n - 1

(* What is on top of a stack in step with the trace. *)
LEMMA SyncTop ==
  ASSUME NEW tr \in Seq(EventType), NEW rg, NEW n \in 1 .. Len(tr), NEW G, History(G, tr),
         tr[n].kind = "end", NEW c, c \in Nat \ {0}, c <= n - 1, NEW r, r \in {0, 1}, NEW st,
         Sync(G, tr, rg, c, n - 1, r, st)
  PROVE  \/ /\ Len(st) > r
            /\ Top(G, n - 1) \in c .. n - 1 /\ OpenNode(st[Len(st)], tr, rg, Top(G, n - 1))
            /\ tr[Top(G, n - 1)].hash = tr[n].hash
         \/ /\ Len(st) = 1 /\ r = 1 /\ RootNode(st[1], rg)
            /\ ~(Top(G, n - 1) >= c)
  <1> DEFINE K == Len(G[n - 1])
             s == Len(st)
  <1>1. Stepped(G, tr, n - 1, n) /\ OpenEntries(G, tr, n - 1) /\ n \in Nat
    <2>1. n - 1 \in 0 .. Len(tr)
      BY LenProperties
    <2> QED BY <2>1, HistoryStep, HistoryEntries
  <1>2. K \in Nat /\ K # 0 /\ Last(G[n - 1]) = G[n - 1][K] /\ Top(G, n - 1) = G[n - 1][K]
    BY <1>1 DEF Stepped, Top
  <1>3. G[n - 1][K] \in 0 .. n - 1
    <2>1. K \in 1 .. K
      <3> HIDE DEF K
      <3> QED BY <1>2
    <2> QED BY <1>1, <2>1 DEF OpenEntries
  <1>4. /\ s \in Nat \ {0} /\ s - r <= K
        /\ r = 1 => RootNode(st[1], rg)
        /\ \A x \in r + 1 .. s : G[n - 1][K - s + x] \in c .. n - 1 /\ OpenNode(st[x], tr, rg, G[n - 1][K - s + x])
        /\ \A y \in 1 .. K - (s - r) : G[n - 1][y] < c
    BY DEF Sync
  <1>5. Last(G[n - 1]) # 0 => tr[Last(G[n - 1])].hash = tr[n].hash
    BY DEF History
  <1> HIDE DEF K, s
  <1>6. CASE s > r
    <2>1. s \in r + 1 .. s /\ K - s + s = K
      BY <1>2, <1>4, <1>6
    <2>2. G[n - 1][K] \in c .. n - 1 /\ OpenNode(st[s], tr, rg, G[n - 1][K])
      BY <1>4, <2>1
    <2>3. G[n - 1][K] # 0
      BY <2>2
    <2> QED BY <1>2, <1>5, <1>6, <2>2, <2>3 DEF s
  <1>7. CASE ~(s > r)
    <2>1. s = 1 /\ r = 1 /\ K \in 1 .. K - (s - r)
      BY <1>2, <1>4, <1>7
    <2>2. G[n - 1][K] < c
      BY <1>4, <2>1
    <2>3. ~(Top(G, n - 1) >= c)
      BY <1>2, <1>3, <2>2
    <2> QED BY <1>4, <2>1, <2>3 DEF s
  <1> QED BY <1>6, <1>7

(* A stack in step with the trace never fails to match an end. *)
LEMMA SyncMatches ==
  ASSUME NEW tr \in Seq(EventType), NEW rg, NEW n \in 1 .. Len(tr), NEW G, History(G, tr),
         tr[n].kind = "end", NEW D, UpTo(D, n), NEW st, InSync(G, tr, rg, D, st), st # <<>>,
         st \in Seq(NodeType)
  PROVE  Last(st).hash \in {tr[n].hash, RootHash}
  <1>0. n \in Nat
    BY EventIs
  <1>1. D # {}
    BY DEF InSync
  <1>2. PICK c \in Nat \ {0}, r \in {0, 1} : c <= n - 1 /\ Sync(G, tr, rg, c, n - 1, r, st)
    BY <1>0, <1>1, SyncParts
  <1>3. Last(st) = st[Len(st)]
    BY DEF Last
  <1>4. \/ /\ OpenNode(st[Len(st)], tr, rg, Top(G, n - 1))
           /\ tr[Top(G, n - 1)].hash = tr[n].hash
        \/ /\ Len(st) = 1 /\ RootNode(st[1], rg)
    BY <1>2, SyncTop
  <1> QED BY <1>3, <1>4 DEF OpenNode, RootNode

(* What an end that closes the top of the stack closes. *)
LEMMA SyncCloses ==
  ASSUME NEW tr \in Seq(EventType), NEW rg, NEW n \in 1 .. Len(tr), NEW G, History(G, tr),
         tr[n].kind = "end", NEW c, c \in Nat \ {0}, c <= n - 1, NEW r, r \in {0, 1}, NEW st,
         Sync(G, tr, rg, c, n - 1, r, st),
         NEW nd, Ended(nd, Last(st), tr, n)
  PROVE  Strip(nd) = ClosedBy(G, tr, rg, c, n)
  <1> DEFINE i == Top(G, n - 1)
             top == st[Len(st)]
  <1>00. Last(st) = top
    BY DEF Last
  <1>0. /\ nd.hash = tr[n].hash /\ nd.begin = top.begin /\ nd.end = T(tr, n) /\ tr[n].hash # RootHash
        /\ top.hash = tr[n].hash => nd.id = top.id
        /\ top.hash # tr[n].hash => nd.id = n - 1
    <2> HIDE DEF top
    <2> QED BY <1>00, EventIs DEF Ended
  <1>1. \/ /\ Len(st) > r /\ i \in c .. n - 1 /\ OpenNode(top, tr, rg, i)
           /\ tr[i].hash = tr[n].hash
        \/ Len(st) = 1 /\ r = 1 /\ RootNode(st[1], rg) /\ ~(i >= c)
    BY SyncTop
  <1>2. CASE i \in c .. n - 1 /\ OpenNode(top, tr, rg, i) /\ tr[i].hash = tr[n].hash
    <2>1. i >= c
      <3>1. n \in Nat
        BY EventIs
      <3> HIDE DEF i
      <3> QED BY <1>2, <3>1
    <2>2. top.id = i - 1 /\ top.hash = tr[i].hash /\ top.begin = T(tr, i)
      BY <1>2 DEF OpenNode
    <2>3. nd.id = i - 1 /\ nd.hash = tr[i].hash
      BY <1>0, <1>2, <2>2
    <2> HIDE DEF i, top
    <2>4. Strip(nd) = SpanOf(tr, i, T(tr, i), T(tr, n))
      BY <1>0, <2>2, <2>3 DEF Strip, SpanOf
    <2> QED BY <2>1, <2>4 DEF ClosedBy, i
  <1>3. CASE Len(st) = 1 /\ RootNode(st[1], rg) /\ ~(i >= c)
    <2>1. top.hash = RootHash /\ top.begin = rg.begin
      BY <1>3 DEF RootNode
    <2>2. nd.id = n - 1
      BY <1>0, <2>1
    <2> HIDE DEF top
    <2>3. Strip(nd) = SpanOf(tr, n, rg.begin, T(tr, n))
      BY <1>0, <2>1, <2>2 DEF Strip, SpanOf
    <2> QED BY <1>3, <2>3 DEF ClosedBy
  <1> QED BY <1>1, <1>2, <1>3

(* The spans that the nodes hold closed grow by the one that an end closes. *)
LEMMA ClosedMore ==
  ASSUME NEW tr \in Seq(EventType), NEW rg, NEW n \in 1 .. Len(tr), NEW G,
         tr[n].kind = "end", NEW c \in Nat, c <= n - 1, NEW r, NEW st,
         Sync(G, tr, rg, c, n - 1, r, st), NEW x, x = ClosedBy(G, tr, rg, c, n)
  PROVE  Closed(st) \cup {x} = ClosedSpans(G, tr, rg, c, n)
  <1>1. n \in Nat /\ c <= n
    BY EventIs
  <1>2. ClosedSpans(G, tr, rg, c, n) =
           ClosedSpans(G, tr, rg, c, n - 1) \cup {ClosedBy(G, tr, rg, c, n)}
    BY <1>1, ClosedSpansEnd
  <1> QED BY <1>2 DEF Sync

(* An end closes the top of the stack. *)
LEMMA StepEnd ==
  ASSUME NEW tr \in Seq(EventType), NEW rg \in RangeType, NEW n \in 1 .. Len(tr), In(rg, T(tr, n)),
         NEW st, NEW now, StackOk(st, rg, now), now <= T(tr, n), NEW new, tr[n].kind = "end",
         st # <<>>, NEW nd, Ended(nd, Last(st), tr, n),
         new = Added(rg, Front(st), nd)
  PROVE  /\ StackOk(new, rg, T(tr, n))
         /\ \A G, D : History(G, tr) /\ UpTo(D, n) /\ InSync(G, tr, rg, D, st)
                        => InSync(G, tr, rg, D \cup {n}, new)
  <1> DEFINE s == Len(st)
  <1>1. n \in Nat /\ T(tr, n) \in Nat /\ T(tr, n) <= rg.end
    BY EventIs DEF In
  <1>2. Last(st) = st[s] /\ st \in Seq(NodeType)
    BY DEF Last, StackOk
  <1>3. /\ nd \in NodeType /\ nd.begin = Last(st).begin /\ nd.children = Last(st).children
        /\ nd.end = T(tr, n)
    BY DEF Ended
  <1>4. /\ s \in Nat \ {0}
        /\ StackOk(new, rg, T(tr, n))
        /\ Closed(new) = Closed(st) \cup {Strip(nd)}
        /\ Len(new) = (IF s = 1 THEN 1 ELSE s - 1)
        /\ s # 1 => \A x \in 1 .. s - 1 :
                       new[x].id = st[x].id /\ new[x].hash = st[x].hash
                       /\ new[x].begin = st[x].begin /\ new[x].end = st[x].end
        /\ s = 1 => new[1].id = -1 /\ new[1].hash = RootHash /\ new[1].begin = rg.begin
                       /\ new[1].end = rg.end
    BY <1>1, <1>3, StackClose
  <1>5. s = 1 => RootNode(new[1], rg)
    BY <1>4 DEF RootNode
  <1>6. ASSUME NEW G, NEW D, History(G, tr), UpTo(D, n), InSync(G, tr, rg, D, st)
        PROVE  InSync(G, tr, rg, D \cup {n}, new)
    <2>1. D # {}
      BY <1>6 DEF InSync
    <2>2. PICK c \in Nat \ {0}, r \in {0, 1} :
               c <= n - 1 /\ D = c .. n - 1 /\ Sync(G, tr, rg, c, n - 1, r, st)
      BY <1>1, <1>6, <2>1, SyncParts
    <2>3. Strip(nd) = ClosedBy(G, tr, rg, c, n)
      BY ONLY <1>6, <2>2, SyncCloses, Ended(nd, Last(st), tr, n), tr \in Seq(EventType), n \in 1 .. Len(tr),
              tr[n].kind = "end", c \in Nat \ {0}, r \in {0, 1}
    <2>4. c \in Nat /\ c <= n - 1 /\ c <= n
      BY <1>1, <2>2
    <2>5. Closed(new) = ClosedSpans(G, tr, rg, c, n)
      <3>1. Closed(st) \cup {Strip(nd)} = ClosedSpans(G, tr, rg, c, n)
        BY <2>2, <2>3, <2>4, ClosedMore
      <3> QED BY <1>4, <3>1
    <2>6. PICK q \in {0, 1} : Sync(G, tr, rg, c, n, q, new)
      BY <1>4, <1>5, <1>6, <2>2, <2>4, <2>5, SyncEnd
    <2>7. D \cup {n} = c .. n
      BY <1>1, <2>2
    <2> QED BY <1>1, <2>4, <2>6, <2>7, SyncMore
  <1> QED BY <1>4, <1>6

(* So does the end that finds a node open, its own or the thread's, which  *)
(* then becomes the span that began before the range.                      *)
LEMMA StepClosed ==
  ASSUME NEW tr \in Seq(EventType), NEW rg \in RangeType, NEW n \in 1 .. Len(tr), In(rg, T(tr, n)),
         NEW st, NEW now, StackOk(st, rg, now), now <= T(tr, n), NEW new,
         ClosedTop(tr, rg, n, st, new) \/ ClosedBefore(tr, rg, n, st, new)
  PROVE  /\ StackOk(new, rg, T(tr, n))
         /\ \A G, D : History(G, tr) /\ UpTo(D, n) /\ InSync(G, tr, rg, D, st)
                        => InSync(G, tr, rg, D \cup {n}, new)
  <1>1. /\ n - 1 \in Int /\ tr[n].hash \in Hashes /\ tr[n].hash # RootHash /\ T(tr, n) \in Nat
        /\ tr[n].kind = "end" /\ st # <<>>
    BY EventIs DEF ClosedTop, ClosedBefore
  <1>2. Last(st) \in NodeType
    BY <1>1, StackPop
  <1> DEFINE top == Last(st)
             a == [top EXCEPT !.end = T(tr, n)]
             b == [top EXCEPT !.id = n - 1, !.hash = tr[n].hash, !.end = T(tr, n)]
  <1>3. /\ Last(st).hash = tr[n].hash => Ended(a, Last(st), tr, n)
        /\ Last(st).hash # tr[n].hash => Ended(b, Last(st), tr, n)
    <2> DEFINE t == T(tr, n)
               id == n - 1
               hash == tr[n].hash
    <2>1. top \in NodeType /\ id \in Int /\ hash \in Hashes /\ t \in Nat
      BY <1>1, <1>2
    <2> HIDE DEF top, id, hash, t
    <2>2. /\ [top EXCEPT !.end = t] \in NodeType
          /\ [top EXCEPT !.end = t].begin = top.begin
          /\ [top EXCEPT !.end = t].children = top.children
          /\ [top EXCEPT !.end = t].end = t
          /\ [top EXCEPT !.end = t].id = top.id
          /\ [top EXCEPT !.end = t].hash = top.hash
      BY <2>1 DEF NodeType
    <2>3. /\ [top EXCEPT !.id = id, !.hash = hash, !.end = t] \in NodeType
          /\ [top EXCEPT !.id = id, !.hash = hash, !.end = t].begin = top.begin
          /\ [top EXCEPT !.id = id, !.hash = hash, !.end = t].children = top.children
          /\ [top EXCEPT !.id = id, !.hash = hash, !.end = t].end = t
          /\ [top EXCEPT !.id = id, !.hash = hash, !.end = t].id = id
          /\ [top EXCEPT !.id = id, !.hash = hash, !.end = t].hash = hash
      BY <2>1 DEF NodeType
    <2>4. a = [top EXCEPT !.end = t] /\ b = [top EXCEPT !.id = id, !.hash = hash, !.end = t]
      BY DEF t, id, hash
    <2>5. top.hash = tr[n].hash => Ended(a, top, tr, n)
      BY <2>2, <2>4 DEF Ended, t
    <2>6. top.hash # tr[n].hash => Ended(b, top, tr, n)
      BY <2>3, <2>4 DEF Ended, t, id, hash
    <2> QED BY <2>5, <2>6 DEF top
  <1>4. CASE ClosedTop(tr, rg, n, st, new)
    <2>1. Last(st).hash = tr[n].hash /\ new = Added(rg, Front(st), a)
      BY <1>4 DEF ClosedTop
    <2> HIDE DEF a, b
    <2> QED BY <1>1, <1>3, <2>1, StepEnd
  <1>5. CASE ClosedBefore(tr, rg, n, st, new)
    <2>1. Last(st).hash # tr[n].hash /\ new = Added(rg, Front(st), b)
      BY <1>1, <1>5 DEF ClosedBefore
    <2> HIDE DEF a, b
    <2> QED BY <1>1, <1>3, <2>1, StepEnd
  <1> QED BY <1>4, <1>5

-----------------------------------------------------------------------------
(***************************************************************************)
(* The ids left to parse.                                                  *)
(***************************************************************************)

(* The ids left to parse: of the events from n on, block after block, up   *)
(* to the event hi; off[i] events come before the rest of the block i.     *)
PendingFrom(off, pend, n, hi, N) ==
    /\ off[1] = n - 1 /\ off[Len(pend) + 1] = hi
    /\ \A i \in 1 .. Len(pend) :
          /\ off[i + 1] = off[i] + Len(pend[i]) /\ off[i + 1] <= N
          /\ \A x \in 1 .. Len(pend[i]) : pend[i][x] = off[i] + x - 1

Pending(pend, n, hi, N) ==
    \E off \in [1 .. Len(pend) + 1 -> Nat] : PendingFrom(off, pend, n, hi, N)

(* Once no block is left, the events up to the last have been parsed. *)
LEMMA PendingDone ==
  ASSUME NEW pend, pend = <<>>, NEW n \in Nat \ {0}, NEW hi, NEW N, Pending(pend, n, hi, N)
  PROVE  n = hi + 1 /\ hi \in Nat
  <1>1. Len(pend) = 0
    OBVIOUS
  <1>2. PICK off \in [1 .. Len(pend) + 1 -> Nat] : PendingFrom(off, pend, n, hi, N)
    BY DEF Pending
  <1>3. off[1] = n - 1 /\ off[0 + 1] = hi /\ off[1] \in Nat
    BY <1>1, <1>2 DEF PendingFrom
  <1> QED BY <1>3

(* The first block is done with, wholly or not. *)
LEMMA PendingTail ==
  ASSUME NEW pend \in Seq(Seq(Nat)), pend # <<>>, NEW n \in Nat \ {0}, NEW hi, NEW N,
         Pending(pend, n, hi, N)
  PROVE  Pending(Tail(pend), n + Len(pend[1]), hi, N) /\ n + Len(pend[1]) \in Nat \ {0}
         /\ n + Len(pend[1]) >= n
  <1> DEFINE new == Tail(pend)
             m == n + Len(pend[1])
             L == Len(pend)
  <1>1. /\ L \in Nat \ {0} /\ pend[1] \in Seq(Nat) /\ new \in Seq(Seq(Nat)) /\ Len(new) = L - 1
        /\ \A i \in 1 .. L - 1 : new[i] = pend[i + 1]
    BY TailIs
  <1>2. Len(pend[1]) \in Nat /\ m \in Nat \ {0} /\ m >= n
    BY <1>1, LenProperties
  <1>3. PICK off \in [1 .. L + 1 -> Nat] : PendingFrom(off, pend, n, hi, N)
    BY DEF Pending
  <1>4. /\ off[1] = n - 1 /\ off[L + 1] = hi
        /\ \A i \in 1 .. L :
              /\ off[i + 1] = off[i] + Len(pend[i]) /\ off[i + 1] <= N
              /\ \A x \in 1 .. Len(pend[i]) : pend[i][x] = off[i] + x - 1
    BY <1>3 DEF PendingFrom
  <1> HIDE DEF new, L
  <1> DEFINE f == [i \in 1 .. Len(new) + 1 |-> off[i + 1]]
  <1>5. \A i \in 1 .. Len(new) + 1 : f[i] = off[i + 1] /\ i + 1 \in 1 .. L + 1
    BY <1>1
  <1>6. f \in [1 .. Len(new) + 1 -> Nat]
    BY <1>1
  <1> HIDE DEF f
  <1>7. f[1] = m - 1
    <2>1. 1 \in 1 .. Len(new) + 1 /\ 1 \in 1 .. L
      BY <1>1
    <2>2. f[1] = (n - 1) + Len(pend[1])
      BY <1>4, <1>5, <2>1
    <2> QED BY <1>2, <2>2
  <1>8. f[Len(new) + 1] = hi
    <2>1. Len(new) + 1 \in 1 .. Len(new) + 1 /\ (Len(new) + 1) + 1 = L + 1
      BY <1>1
    <2> QED BY <1>4, <1>5, <2>1
  <1>9. ASSUME NEW i \in 1 .. Len(new)
        PROVE  /\ f[i + 1] = f[i] + Len(new[i]) /\ f[i + 1] <= N
               /\ \A x \in 1 .. Len(new[i]) : new[i][x] = f[i] + x - 1
    <2>1. /\ i + 1 \in 1 .. L /\ i \in 1 .. L - 1 /\ i \in 1 .. Len(new) + 1
          /\ i + 1 \in 1 .. Len(new) + 1
      BY <1>1
    <2>2. new[i] = pend[i + 1] /\ f[i] = off[i + 1] /\ f[i + 1] = off[(i + 1) + 1]
      BY <1>1, <1>5, <2>1
    <2> QED BY <1>4, <2>1, <2>2
  <1>10. PendingFrom(f, new, m, hi, N)
    BY <1>7, <1>8, <1>9 DEF PendingFrom
  <1> HIDE DEF m
  <1>11. Pending(new, m, hi, N)
    BY <1>6, <1>10 DEF Pending
  <1> QED BY <1>2, <1>11 DEF new, m

(* The ids left in a block are those of recorded events. *)
LEMMA PendingEnd ==
  ASSUME NEW pend \in Seq(Seq(Nat)), pend # <<>>, NEW n \in Nat \ {0}, NEW hi, NEW N,
         Pending(pend, n, hi, N)
  PROVE  n + Len(pend[1]) - 1 <= N
  <1>1. Len(pend) \in Nat \ {0} /\ pend[1] \in Seq(Nat)
    BY TailIs
  <1>2. Len(pend[1]) \in Nat
    BY <1>1, LenProperties
  <1>3. PICK off \in [1 .. Len(pend) + 1 -> Nat] : PendingFrom(off, pend, n, hi, N)
    BY DEF Pending
  <1>4. 1 \in 1 .. Len(pend)
    BY <1>1
  <1>5. off[1] = n - 1 /\ off[1 + 1] = off[1] + Len(pend[1]) /\ off[1 + 1] <= N
    BY <1>3, <1>4 DEF PendingFrom
  <1>6. (n - 1) + Len(pend[1]) = n + Len(pend[1]) - 1
    BY <1>2
  <1> QED BY <1>5, <1>6

(* The next event is parsed. *)
LEMMA PendingHead ==
  ASSUME NEW pend \in Seq(Seq(Nat)), pend # <<>>, pend[1] # <<>>, NEW n \in Nat \ {0}, NEW hi,
         NEW N \in Nat, Pending(pend, n, hi, N)
  PROVE  /\ n \in 1 .. N /\ pend[1][1] = n - 1
         /\ Pending([pend EXCEPT ![1] = Tail(@)], n + 1, hi, N)
         /\ [pend EXCEPT ![1] = Tail(@)] \in Seq(Seq(Nat))
  <1> DEFINE one == pend[1]
             new == [pend EXCEPT ![1] = Tail(@)]
             L == Len(pend)
  <1>1. L \in Nat \ {0} /\ 1 \in 1 .. L /\ one \in Seq(Nat) /\ \A i \in 1 .. L : pend[i] \in Seq(Nat)
    BY TailIs, ElementOfSeq
  <1>2. /\ Len(one) \in Nat \ {0} /\ Tail(one) \in Seq(Nat) /\ Len(Tail(one)) = Len(one) - 1
        /\ \A x \in 1 .. Len(one) - 1 : Tail(one)[x] = one[x + 1]
    BY <1>1, TailIs
  <1>3. PICK off \in [1 .. L + 1 -> Nat] : PendingFrom(off, pend, n, hi, N)
    BY DEF Pending
  <1>4. /\ off[1] = n - 1 /\ off[L + 1] = hi
        /\ \A i \in 1 .. L :
              /\ off[i + 1] = off[i] + Len(pend[i]) /\ off[i + 1] <= N
              /\ \A x \in 1 .. Len(pend[i]) : pend[i][x] = off[i] + x - 1
    BY <1>3 DEF PendingFrom
  <1>5. new \in Seq(Seq(Nat)) /\ Len(new) = L /\ new[1] = Tail(one)
        /\ \A i \in 1 .. L : i # 1 => new[i] = pend[i]
    <2>1. Tail(one) \in Seq(Nat) /\ new = [pend EXCEPT ![1] = Tail(one)]
      BY <1>2
    <2> HIDE DEF one
    <2> QED BY <1>1, <2>1, ExceptSeq
  <1>6. /\ off[1 + 1] = (n - 1) + Len(one) /\ (n - 1) + Len(one) <= N
        /\ \A x \in 1 .. Len(one) : one[x] = (n - 1) + x - 1
    BY <1>1, <1>4
  <1> HIDE DEF one, new, L
  <1>7. n \in 1 .. N /\ one[1] = n - 1
    BY <1>2, <1>6
  <1> DEFINE f == [i \in 1 .. L + 1 |-> IF i = 1 THEN n ELSE off[i]]
  <1>8. f \in [1 .. L + 1 -> Nat] /\ f[1] = n /\ \A i \in 1 .. L + 1 : i # 1 => f[i] = off[i]
    BY <1>1
  <1> HIDE DEF f
  <1>9. f[L + 1] = hi
    BY <1>1, <1>4, <1>8
  <1>10. ASSUME NEW i \in 1 .. L
         PROVE  /\ f[i + 1] = f[i] + Len(new[i]) /\ f[i + 1] <= N
                /\ \A x \in 1 .. Len(new[i]) : new[i][x] = f[i] + x - 1
    <2>0. f[i + 1] = off[i + 1]
      BY <1>1, <1>8
    <2>1. CASE i = 1
      <3>1. f[1 + 1] = n + Len(Tail(one)) /\ f[1 + 1] <= N
        BY <1>2, <1>6, <2>0, <2>1
      <3>2. ASSUME NEW x \in 1 .. Len(Tail(one)) PROVE Tail(one)[x] = n + x - 1
        <4>1. x \in 1 .. Len(one) - 1 /\ x + 1 \in 1 .. Len(one)
          BY <1>2
        <4>2. Tail(one)[x] = (n - 1) + (x + 1) - 1
          BY <1>2, <1>6, <4>1
        <4> QED BY <1>2, <4>1, <4>2
      <3> QED BY <1>5, <1>8, <2>1, <3>1, <3>2
    <2>2. CASE i # 1
      <3>0. i \in 1 .. L + 1
        BY <1>1
      <3>1. new[i] = pend[i] /\ f[i] = off[i]
        BY <1>5, <1>8, <2>2, <3>0
      <3>2. /\ off[i + 1] = off[i] + Len(pend[i]) /\ off[i + 1] <= N
            /\ \A x \in 1 .. Len(pend[i]) : pend[i][x] = off[i] + x - 1
        BY <1>4
      <3>3. f[i + 1] = f[i] + Len(new[i]) /\ f[i + 1] <= N
        BY <2>0, <3>1, <3>2
      <3> QED BY <3>1, <3>2, <3>3
    <2> QED BY <2>1, <2>2
  <1>11. PendingFrom(f, new, n + 1, hi, N)
    <2>1. f[1] = (n + 1) - 1
      BY <1>8
    <2> QED BY <1>5, <1>9, <1>10, <2>1 DEF PendingFrom
  <1>12. Pending(new, n + 1, hi, N)
    BY <1>5, <1>8, <1>11 DEF Pending
  <1> QED BY <1>5, <1>7, <1>12 DEF one, new

(* A run of blocks of the lake, each of which begins where the one before  *)
(* it ended.                                                               *)
Run(bs) ==
    /\ \A x \in 1 .. Len(bs) : \E k \in 1 .. Len(lake) : bs[x] = lake[k]
    /\ \A x \in 1 .. Len(bs) - 1 : bs[x].end_ticks = bs[x + 1].begin_ticks

FirstOf(bs) == bs[1].object_offset + 1
LastOf(bs)  == Last(bs).object_offset + Last(bs).nb_objects

(* The ids of a block's events. *)
LEMMA EventIdsIs ==
  ASSUME NEW b \in BlockType
  PROVE  /\ EventIds(b) \in Seq(Nat) /\ Len(EventIds(b)) = b.nb_objects
         /\ \A x \in 1 .. b.nb_objects : EventIds(b)[x] = b.object_offset + x - 1
  <1>1. b.nb_objects \in Nat /\ b.object_offset \in Nat
    BY DEF BlockType
  <1>2. \A i \in 1 .. b.nb_objects : b.object_offset + i - 1 \in Nat
    BY <1>1
  <1> QED BY <1>1, <1>2 DEF EventIds

(* The events of a run of blocks follow each other. *)
LEMMA PendingStart ==
  ASSUME RecorderType, LakeInv, NEW bs \in Seq(BlockType), bs # <<>>, Run(bs)
  PROVE  LET pend == [i \in DOMAIN bs |-> EventIds(bs[i])] IN
         /\ Pending(pend, FirstOf(bs), LastOf(bs), Len(trace))
         /\ pend \in Seq(Seq(Nat)) /\ FirstOf(bs) \in Nat \ {0}
  <1> DEFINE pend == [i \in DOMAIN bs |-> EventIds(bs[i])]
             L == Len(bs)
             off == [i \in 1 .. L + 1 |-> IF i = L + 1 THEN LastOf(bs) ELSE bs[i].object_offset]
  <1>1. /\ L \in Nat \ {0} /\ DOMAIN bs = 1 .. L /\ Last(bs) = bs[L]
        /\ \A i \in 1 .. L : bs[i] \in BlockType
    BY FrontIs, LenProperties, ElementOfSeq
  <1>2. \A i \in 1 .. L : bs[i].object_offset \in Nat /\ bs[i].nb_objects \in Nat
    BY <1>1 DEF BlockType
  <1>3. \A i \in 1 .. L : /\ EventIds(bs[i]) \in Seq(Nat) /\ Len(EventIds(bs[i])) = bs[i].nb_objects
                          /\ \A x \in 1 .. bs[i].nb_objects : EventIds(bs[i])[x] = bs[i].object_offset + x - 1
    BY <1>1, EventIdsIs
  <1>4. pend \in Seq(Seq(Nat)) /\ Len(pend) = L /\ \A i \in 1 .. L : pend[i] = EventIds(bs[i])
    <2>1. pend \in [1 .. L -> Seq(Nat)]
      BY <1>1, <1>3
    <2> QED BY <1>1, <2>1
  <1>5. ASSUME NEW i \in 1 .. L PROVE bs[i].object_offset + bs[i].nb_objects <= Len(trace)
    <2>1. PICK k \in 1 .. Len(lake) : bs[i] = lake[k]
      BY DEF Run
    <2>2. BlockFits(lake[k], current, Len(trace), clock)
      BY DEF LakeInv
    <2> QED BY <2>1, <2>2 DEF BlockFits
  <1>6. ASSUME NEW i \in 1 .. L - 1
        PROVE  bs[i + 1].object_offset = bs[i].object_offset + bs[i].nb_objects
    <2>1. i \in 1 .. L /\ i + 1 \in 1 .. L
      BY <1>1
    <2>2. bs[i].end_ticks = bs[i + 1].begin_ticks
      BY DEF Run
    <2>3. PICK j \in 1 .. Len(lake), k \in 1 .. Len(lake) : bs[i] = lake[j] /\ bs[i + 1] = lake[k]
      BY <2>1 DEF Run
    <2>4. Follows(lake[j], lake[k])
      BY DEF LakeInv
    <2> QED BY <2>2, <2>3, <2>4 DEF Follows
  <1>7. LastOf(bs) = bs[L].object_offset + bs[L].nb_objects /\ L \in 1 .. L
    BY <1>1 DEF LastOf
  <1>8. off \in [1 .. L + 1 -> Nat] /\ off[L + 1] = LastOf(bs)
        /\ \A i \in 1 .. L : off[i] = bs[i].object_offset
    <2>1. LastOf(bs) \in Nat
      BY <1>2, <1>7
    <2> HIDE DEF L
    <2>2. \A i \in 1 .. L + 1 : i = L + 1 \/ i \in 1 .. L
      BY <1>1
    <2>3. \A i \in 1 .. L : i \in 1 .. L + 1 /\ i # L + 1
      BY <1>1
    <2>4. L + 1 \in 1 .. L + 1
      BY <1>1
    <2> QED BY <1>2, <2>1, <2>2, <2>3, <2>4
  <1> HIDE DEF off, pend, L
  <1>9. off[1] = FirstOf(bs) - 1 /\ FirstOf(bs) \in Nat \ {0}
    <2>1. 1 \in 1 .. L
      BY <1>1
    <2> QED BY <1>2, <1>8, <2>1 DEF FirstOf
  <1>10. ASSUME NEW i \in 1 .. L
         PROVE  /\ off[i + 1] = off[i] + Len(pend[i]) /\ off[i + 1] <= Len(trace)
                /\ \A x \in 1 .. Len(pend[i]) : pend[i][x] = off[i] + x - 1
    <2>1. off[i + 1] = bs[i].object_offset + bs[i].nb_objects
      <3>1. CASE i = L
        BY <1>7, <1>8, <3>1
      <3>2. CASE i # L
        <4>1. i \in 1 .. L - 1 /\ i + 1 \in 1 .. L
          BY <1>1, <3>2
        <4> QED BY <1>6, <1>8, <4>1
      <3> QED BY <3>1, <3>2
    <2>2. off[i] = bs[i].object_offset /\ Len(pend[i]) = bs[i].nb_objects
      BY <1>3, <1>4, <1>8
    <2>3. \A x \in 1 .. Len(pend[i]) : pend[i][x] = off[i] + x - 1
      BY <1>3, <1>4, <2>2
    <2> QED BY <1>5, <2>1, <2>2, <2>3
  <1>11. PendingFrom(off, pend, FirstOf(bs), LastOf(bs), Len(trace))
    BY <1>4, <1>8, <1>9, <1>10 DEF PendingFrom
  <1>12. Pending(pend, FirstOf(bs), LastOf(bs), Len(trace))
    BY <1>4, <1>8, <1>11 DEF Pending
  <1> QED BY <1>4, <1>9, <1>12 DEF pend

(* They are in the trace. *)
LEMMA HiFits ==
  ASSUME RecorderType, LakeInv, NEW bs \in Seq(BlockType), bs # <<>>, Run(bs)
  PROVE  LastOf(bs) <= Len(trace)
  <1>0. Last(bs) = bs[Len(bs)] /\ Len(bs) \in Nat \ {0}
    BY FrontIs
  <1>1. Last(bs) = bs[Len(bs)] /\ Len(bs) \in 1 .. Len(bs)
    BY <1>0
  <1>2. PICK k \in 1 .. Len(lake) : bs[Len(bs)] = lake[k]
    BY <1>1 DEF Run
  <1>3. BlockFits(lake[k], current, Len(trace), clock)
    BY DEF LakeInv
  <1> QED BY <1>1, <1>2, <1>3 DEF BlockFits, LastOf

-----------------------------------------------------------------------------

(* The events that were parsed and lie in the range, when n is next. *)
Parsed(tr, rg, lo, n) == {k \in lo .. n - 1 : In(rg, T(tr, k))}

(* Times are in order. *)
LEMMA TimesInOrder ==
  ASSUME RecorderType, LakeInv
  PROVE  /\ \A k \in 1 .. Len(trace) : T(trace, k) \in Nat
         /\ \A j, k \in 1 .. Len(trace) : j <= k => T(trace, j) <= T(trace, k)
  <1>1. \A k \in 1 .. Len(trace) : trace[k].time \in Nat
    BY EventFields
  <1>2. \A j, k \in 1 .. Len(trace) : j <= k => trace[j].time <= trace[k].time
    BY DEF LakeInv, InOrder
  <1> QED BY <1>1, <1>2, TicksInOrder DEF T

(* The next event is not in the range, or follows those that are. *)
LEMMA ParsedSkip ==
  ASSUME NEW tr, NEW rg, NEW lo \in Nat \ {0}, NEW n \in Nat \ {0}, NEW m \in Nat, m >= n,
         \A k \in n .. m - 1 : ~In(rg, T(tr, k))
  PROVE  Parsed(tr, rg, lo, m) = Parsed(tr, rg, lo, n)
  <1>1. \A k \in lo .. m - 1 : In(rg, T(tr, k)) => k \in lo .. n - 1
    OBVIOUS
  <1>2. \A k \in lo .. n - 1 : k \in lo .. m - 1
    OBVIOUS
  <1> QED BY <1>1, <1>2 DEF Parsed

(* The events parsed, after one more that lies in the range. *)
LEMMA ParsedNext ==
  ASSUME NEW tr, NEW rg, NEW lo \in Nat \ {0}, NEW n \in Nat \ {0}, lo <= n, In(rg, T(tr, n))
  PROVE  Parsed(tr, rg, lo, n + 1) = Parsed(tr, rg, lo, n) \cup {n}
  <1>1. \A k : k \in lo .. (n + 1) - 1 <=> k \in lo .. n - 1 \/ k = n
    OBVIOUS
  <1> QED BY <1>1 DEF Parsed

(* As times never go back, the parsed events that lie in the range are     *)
(* consecutive and end at the one before.                                  *)
LEMMA ParsedUpTo ==
  ASSUME RecorderType, LakeInv, NEW rg \in RangeType, NEW lo \in Nat \ {0}, NEW n \in 1 .. Len(trace),
         In(rg, T(trace, n))
  PROVE  UpTo(Parsed(trace, rg, lo, n), n)
  <1> DEFINE D == Parsed(trace, rg, lo, n)
  <1> SUFFICES ASSUME D # {} PROVE \E c \in Nat \ {0} : c <= n - 1 /\ D = c .. n - 1
    BY DEF UpTo
  <1>1. n \in Nat /\ rg.begin \in Nat /\ rg.end \in Nat
    BY EventFields, RangeFields
  <1>2. \A k \in D : k \in lo .. n - 1 /\ rg.begin <= T(trace, k)
    BY DEF Parsed, In
  <1>3. D \in SUBSET Nat
    BY <1>1, <1>2
  <1> HIDE DEF D
  <1>4. PICK c \in D : \A y \in D : c <= y
    BY <1>3, Least
  <1>5. c \in Nat \ {0} /\ c <= n - 1 /\ lo <= c
    BY <1>1, <1>2, <1>4
  <1>6. ASSUME NEW k \in c .. n - 1 PROVE k \in D
    <2>1. /\ k \in 1 .. Len(trace) /\ c \in 1 .. Len(trace) /\ c <= k /\ k <= n /\ k \in lo .. n - 1
      BY <1>1, <1>5, EventFields
    <2>2. T(trace, c) <= T(trace, k) /\ T(trace, k) <= T(trace, n)
          /\ T(trace, c) \in Nat /\ T(trace, k) \in Nat /\ T(trace, n) \in Nat
      BY <2>1, TimesInOrder
    <2>3. In(rg, T(trace, k))
      BY <1>1, <1>2, <1>4, <2>2 DEF In
    <2> QED BY <2>1, <2>3 DEF D, Parsed
  <1>7. ASSUME NEW k \in D PROVE k \in c .. n - 1
    BY <1>1, <1>2, <1>4, <1>5
  <1>8. D = c .. n - 1
    BY <1>6, <1>7
  <1> QED BY <1>5, <1>8

-----------------------------------------------------------------------------
(***************************************************************************)
(* The handlers.                                                           *)
(***************************************************************************)

(* What a handler does with the event n. *)
Passed(n) ==
    /\ UNCHANGED <<range, nb_spans, stack, mismatch>> /\ cont' \in BOOLEAN
    /\ LimitReached \/ ~In(range, T(trace, n))
    /\ ~cont' => LimitReached \/ T(trace, n) > range.end

Taken(n) ==
    /\ UNCHANGED <<range, mismatch>> /\ cont' = TRUE /\ nb_spans' \in {nb_spans, nb_spans + 1}
    /\ In(range, T(trace, n))
    /\ \/ Pushed(trace, range, n, stack, stack')
       \/ ClosedFirst(trace, range, n, stack, stack')
       \/ ClosedTop(trace, range, n, stack, stack')
       \/ ClosedBefore(trace, range, n, stack, stack')

Failed(n) ==
    /\ UNCHANGED <<range, nb_spans, stack, cont>> /\ mismatch' = TRUE
    /\ In(range, T(trace, n)) /\ trace[n].kind = "end" /\ stack # <<>>
    /\ Last(stack).hash \notin {trace[n].hash, RootHash}

(* What add_child_to_top leaves, as a value. *)
LEMMA AddedIs ==
  ASSUME NEW rest, NEW nd, add_child_to_top(rest, nd)
  PROVE  /\ stack' = Added(range, rest, nd) /\ nb_spans' \in {nb_spans, nb_spans + 1}
         /\ cont' = TRUE /\ UNCHANGED <<range, mismatch>>
  BY DEF add_child_to_top, Added, Thread, ThreadNode

(* on_begin_thread_scope passes an event over or takes it. *)
LEMMA BeginCases ==
  ASSUME RecorderType, BuilderType, NEW n \in 1 .. Len(trace), trace[n].kind = "begin",
         on_begin_thread_scope(n - 1, trace[n].hash, T(trace, n))
  PROVE  Passed(n) \/ Taken(n)
  <1> DEFINE t == T(trace, n)
  <1>1. t \in Nat /\ range.begin \in Nat /\ range.end \in Nat
    BY EventIs, RangeFields DEF RecorderType, BuilderType
  <1>2. CASE LimitReached /\ Answer(FALSE)
    BY <1>2 DEF Answer, Passed
  <1>3. CASE t < range.begin /\ Answer(TRUE)
    <2>1. ~In(range, t)
      <3> HIDE DEF t
      <3> QED BY <1>1, <1>3 DEF In
    <2> QED BY <1>3, <2>1 DEF Answer, Passed
  <1>4. CASE t > range.end /\ Answer(FALSE)
    <2>1. ~In(range, t)
      <3> HIDE DEF t
      <3> QED BY <1>1, <1>4 DEF In
    <2> QED BY <1>4, <2>1 DEF Answer, Passed
  <1>5. CASE InRange(t) /\ PushSpan(n - 1, trace[n].hash, t)
    <2>1. In(range, t)
      BY <1>5 DEF InRange, In
    <2>2. Pushed(trace, range, n, stack, stack')
      BY <1>5 DEF PushSpan, Pushed
    <2>3. nb_spans' = nb_spans + 1 /\ cont' = TRUE /\ UNCHANGED <<range, mismatch>>
      BY <1>5 DEF PushSpan
    <2> QED BY <2>1, <2>2, <2>3 DEF Taken
  <1> QED BY <1>2, <1>3, <1>4, <1>5 DEF on_begin_thread_scope

(* on_end_thread_scope passes an event over, takes it or fails. *)
LEMMA EndCases ==
  ASSUME RecorderType, BuilderType, NEW n \in 1 .. Len(trace), trace[n].kind = "end",
         on_end_thread_scope(n - 1, trace[n].hash, T(trace, n))
  PROVE  Passed(n) \/ Taken(n) \/ Failed(n)
  <1> DEFINE t == T(trace, n)
             hash == trace[n].hash
             nil == <<>>
  <1>1. t \in Nat /\ range.begin \in Nat /\ range.end \in Nat
    BY EventIs, RangeFields DEF RecorderType, BuilderType
  <1>2. CASE t < range.begin /\ Answer(TRUE)
    <2>1. ~In(range, t)
      <3> HIDE DEF t
      <3> QED BY <1>1, <1>2 DEF In
    <2> QED BY <1>2, <2>1 DEF Answer, Passed
  <1>3. CASE t > range.end /\ Answer(FALSE)
    <2>1. ~In(range, t)
      <3> HIDE DEF t
      <3> QED BY <1>1, <1>3 DEF In
    <2> QED BY <1>3, <2>1 DEF Answer, Passed
  <1>4. CASE LimitReached /\ Answer(FALSE)
    BY <1>4 DEF Answer, Passed
  <1>5. CASE InRange(t) /\ stack = nil /\ add_child_to_top(nil, Node(n - 1, hash, range.begin, t, <<>>))
    <2>1. In(range, t)
      BY <1>5 DEF InRange, In
    <2>2. /\ stack' = Added(range, nil, Node(n - 1, hash, range.begin, t, <<>>))
          /\ nb_spans' \in {nb_spans, nb_spans + 1} /\ cont' = TRUE /\ UNCHANGED <<range, mismatch>>
      BY <1>5, AddedIs
    <2>3. ClosedFirst(trace, range, n, stack, stack')
      BY <1>5, <2>2 DEF ClosedFirst
    <2> QED BY <2>1, <2>2, <2>3 DEF Taken
  <1>6. CASE InRange(t) /\ stack # nil /\ EndTop(hash, t)
    <2>1. In(range, t)
      BY <1>6 DEF InRange, In
    <2>2. /\ Last(stack).hash = hash
          /\ add_child_to_top(Front(stack), [Last(stack) EXCEPT !.end = t])
      BY <1>6 DEF EndTop
    <2>3. /\ stack' = Added(range, Front(stack), [Last(stack) EXCEPT !.end = t])
          /\ nb_spans' \in {nb_spans, nb_spans + 1} /\ cont' = TRUE /\ UNCHANGED <<range, mismatch>>
      BY <2>2, AddedIs
    <2>4. ClosedTop(trace, range, n, stack, stack')
      BY <1>6, <2>2, <2>3 DEF ClosedTop
    <2> QED BY <2>1, <2>3, <2>4 DEF Taken
  <1>7. CASE InRange(t) /\ stack # nil /\ EndBegunBefore(n - 1, hash, t)
    <2>1. In(range, t)
      BY <1>7 DEF InRange, In
    <2>2. /\ Last(stack).hash = RootHash
          /\ add_child_to_top(Front(stack), [Last(stack) EXCEPT !.id = n - 1, !.hash = hash, !.end = t])
      BY <1>7 DEF EndBegunBefore
    <2>3. /\ stack' = Added(range, Front(stack), [Last(stack) EXCEPT !.id = n - 1, !.hash = hash, !.end = t])
          /\ nb_spans' \in {nb_spans, nb_spans + 1} /\ cont' = TRUE /\ UNCHANGED <<range, mismatch>>
      BY <2>2, AddedIs
    <2>4. ClosedBefore(trace, range, n, stack, stack')
      BY <1>7, <2>2, <2>3 DEF ClosedBefore
    <2> QED BY <2>1, <2>3, <2>4 DEF Taken
  <1>8. CASE InRange(t) /\ stack # nil /\ EndMismatch(hash)
    BY <1>8 DEF EndMismatch, Failed, InRange, In
  <1> QED BY <1>2, <1>3, <1>4, <1>5, <1>6, <1>7, <1>8 DEF on_end_thread_scope

-----------------------------------------------------------------------------

(* The tree when the events up to n have been parsed. *)
TreeAt(tr, rg, nb, st, lo, n) ==
    /\ \E now : StackOk(st, rg, now) /\ \A k \in n .. Len(tr) : now <= T(tr, k)
    /\ nb < rg.limit =>
          \A G : History(G, tr) => InSync(G, tr, rg, Parsed(tr, rg, lo, n), st)

(* An event that changes the tree. *)
LEMMA TreeTaken ==
  ASSUME RecorderType, LakeInv, BuilderType, NEW n \in 1 .. Len(trace), NEW lo \in Nat \ {0}, lo <= n,
         TreeAt(trace, range, nb_spans, stack, lo, n), Taken(n)
  PROVE  TreeAt(trace, range, nb_spans', stack', lo, n + 1)
  <1>1. trace \in Seq(EventType) /\ range \in RangeType /\ In(range, T(trace, n))
    BY DEF RecorderType, BuilderType, Taken
  <1>2. PICK now : StackOk(stack, range, now) /\ \A k \in n .. Len(trace) : now <= T(trace, k)
    BY DEF TreeAt
  <1>3. n \in n .. Len(trace) /\ n \in Nat \ {0} /\ Len(trace) \in Nat
    BY EventFields
  <1>4. now <= T(trace, n)
    BY <1>2, <1>3
  <1>5. /\ StackOk(stack', range, T(trace, n))
        /\ \A G, D : History(G, trace) /\ UpTo(D, n) /\ InSync(G, trace, range, D, stack)
                       => InSync(G, trace, range, D \cup {n}, stack')
    <2>1. CASE Pushed(trace, range, n, stack, stack')
      BY <1>1, <1>2, <1>4, <2>1, StepPushed
    <2>2. CASE ClosedFirst(trace, range, n, stack, stack')
      BY <1>1, <2>2, StepClosedFirst
    <2>3. CASE ClosedTop(trace, range, n, stack, stack') \/ ClosedBefore(trace, range, n, stack, stack')
      BY <1>1, <1>2, <1>4, <2>3, StepClosed
    <2> QED BY <2>1, <2>2, <2>3 DEF Taken
  <1>6. \A k \in n + 1 .. Len(trace) : T(trace, n) <= T(trace, k)
    BY <1>3, TimesInOrder
  <1>7. nb_spans' < range.limit => nb_spans < range.limit
    <2>1. nb_spans \in Nat /\ range.limit \in Int /\ nb_spans' \in {nb_spans, nb_spans + 1}
      BY RangeFields DEF BuilderType, Taken
    <2> QED BY <2>1
  <1>8. UpTo(Parsed(trace, range, lo, n), n)
    BY <1>1, ParsedUpTo
  <1>9. Parsed(trace, range, lo, n + 1) = Parsed(trace, range, lo, n) \cup {n}
    BY <1>1, <1>3, ParsedNext
  <1>10. ASSUME nb_spans' < range.limit, NEW G, History(G, trace)
         PROVE  InSync(G, trace, range, Parsed(trace, range, lo, n + 1), stack')
    <2>1. InSync(G, trace, range, Parsed(trace, range, lo, n), stack)
      BY <1>7, <1>10 DEF TreeAt
    <2>2. InSync(G, trace, range, Parsed(trace, range, lo, n) \cup {n}, stack')
      BY <1>5, <1>8, <1>10, <2>1
    <2> QED BY <1>9, <2>2
  <1> QED BY <1>5, <1>6, <1>10 DEF TreeAt

(* Events that do not. *)
LEMMA TreePassed ==
  ASSUME BuilderType, NEW n \in Nat \ {0}, NEW m \in Nat, m >= n, NEW lo \in Nat \ {0},
         TreeAt(trace, range, nb_spans, stack, lo, n),
         LimitReached \/ \A k \in n .. m - 1 : ~In(range, T(trace, k)), Len(trace) \in Nat
  PROVE  TreeAt(trace, range, nb_spans, stack, lo, m)
  <1>1. \A k \in m .. Len(trace) : k \in n .. Len(trace)
    OBVIOUS
  <1>2. \E now : StackOk(stack, range, now) /\ \A k \in m .. Len(trace) : now <= T(trace, k)
    BY <1>1 DEF TreeAt
  <1>3. ASSUME nb_spans < range.limit PROVE Parsed(trace, range, lo, m) = Parsed(trace, range, lo, n)
    <2>1. ~LimitReached
      <3>1. nb_spans \in Nat /\ range.limit \in Int
        BY RangeFields DEF BuilderType
      <3> QED BY <1>3, <3>1 DEF LimitReached
    <2> QED BY <2>1, ParsedSkip
  <1> QED BY <1>2, <1>3 DEF TreeAt

-----------------------------------------------------------------------------
(***************************************************************************)
(* The inductive invariant.                                                *)
(***************************************************************************)

(* What find_stream_blocks_in_range returns, as a function of the lake. *)
Found(lk, begin, end) ==
    LET First[n \in 0 .. Len(lk)] ==
            IF n = 0 THEN <<>>
            ELSE IF Selected(lk[n], begin, end) THEN Append(First[n - 1], lk[n])
            ELSE First[n - 1]
    IN  First[Len(lk)]

Selection == Found(lake, query.begin, query.end)

(* The selected blocks are blocks of the lake. *)
LEMMA SelectionIs ==
  ASSUME RecorderType
  PROVE  /\ \A b, e : find_stream_blocks_in_range(b, e) = Found(lake, b, e)
         /\ Selection = find_stream_blocks_in_range(query.begin, query.end)
         /\ Selection \in Seq(BlockType) /\ Len(Selection) \in Nat
         /\ \A i \in 1 .. Len(Selection) : \E n \in 1 .. Len(lake) : Selection[i] = lake[n]
  <1>1. ASSUME NEW b, NEW e PROVE find_stream_blocks_in_range(b, e) = Found(lake, b, e)
    BY DEF find_stream_blocks_in_range, Found
  <1>2. Selection = find_stream_blocks_in_range(query.begin, query.end)
    BY <1>1 DEF Selection
  <1>3. /\ Selection \in Seq(BlockType)
        /\ \A i \in 1 .. Len(Selection) : \E n \in 1 .. Len(lake) : Selection[i] = lake[n]
    <2>1. lake \in Seq(BlockType)
      BY DEF RecorderType
    <2> QED BY <1>2, <2>1, FoundIs
  <1> QED BY <1>1, <1>2, <1>3, LenProperties

(* A block of the selection went into a tree, waits to, or does not follow *)
(* the one before it.                                                      *)
Handled(sel, i, us, bs) ==
    \/ sel[i] \in us
    \/ \E x \in 1 .. Len(bs) : bs[x] = sel[i]
    \/ i > 1 /\ sel[i - 1].end_ticks # sel[i].begin_ticks

(* The first p blocks of the selection have been looked at. *)
LookedAt(sel, p, td, bs, le, us, pc) ==
    /\ Len(td) = Len(sel) - p /\ \A i \in 1 .. Len(td) : td[i] = sel[p + i]
    /\ \A i \in 1 .. p : Handled(sel, i, us, bs)
    /\ pc = "group" /\ bs # <<>> => p >= 1 /\ Last(bs) = sel[p] /\ le = Last(bs).end_ticks

Grouped(sel, td, bs, le, us, pc) ==
    \E p \in 0 .. Len(sel) : LookedAt(sel, p, td, bs, le, us, pc)

Groups ==
    /\ qpc = "idle" => blocks_to_process = <<>>
    /\ qpc # "idle" => Grouped(Selection, todo, blocks_to_process, last_end, used, qpc)
    /\ blocks_to_process = <<>> \/ qpc = "parse" => last_end = None
    /\ qpc = "parse" => blocks_to_process # <<>>
                        /\ \A x \in 1 .. Len(blocks_to_process) : blocks_to_process[x] \in used
    /\ Run(blocks_to_process)
    /\ qpc = "done" /\ Len(rows) < query.limit /\ ~mismatch
         => todo = <<>> /\ blocks_to_process = <<>>

Mismatched == mismatch => qpc = "done" /\ LimitReached

ParseInv ==
    qpc = "parse" => \E n \in Nat \ {0} :
        /\ FirstOf(blocks_to_process) \in Nat \ {0} /\ FirstOf(blocks_to_process) <= n
        /\ Pending(pending, n, LastOf(blocks_to_process), Len(trace))
        /\ TreeAt(trace, range, nb_spans, stack, FirstOf(blocks_to_process), n)

Typed == QueryTypes /\ BuilderType

IInv == RecorderInv /\ Typed /\ Groups /\ Mismatched /\ ParseInv

-----------------------------------------------------------------------------

(* The invariant holds before anything is recorded. *)
LEMMA InitIInv == Init => IInv
  <1> SUFFICES ASSUME Init PROVE IInv
    OBVIOUS
  <1>1. RecorderInv
    BY RecorderInit
  <1>2. QueryTypes
    <2>1. /\ query = None /\ qpc = "idle" /\ todo = <<>> /\ blocks_to_process = <<>> /\ last_end = None
          /\ pending = <<>> /\ rows = <<>>
      BY DEF Init
    <2>2. todo \in Seq(BlockType) /\ blocks_to_process \in Seq(BlockType)
      BY <2>1
    <2>3. pending \in Seq(Seq(Nat)) /\ rows \in Seq(RowType)
      BY <2>1
    <2>4. query \in QueryType \cup {None} /\ last_end \in Nat \cup {None}
      BY <2>1
    <2>5. qpc \in {"idle", "group", "parse", "done"} /\ ~(qpc # "idle")
      BY <2>1
    <2> QED BY <2>2, <2>3, <2>4, <2>5 DEF QueryTypes
  <1>3. BuilderType
    <2>1. range \in RangeType /\ nb_spans \in Nat
      BY DEF Init, RangeType
    <2>2. stack \in Seq(NodeType)
      <3>1. stack = <<>>
        BY DEF Init
      <3> QED BY <3>1
    <2>3. cont \in BOOLEAN /\ mismatch \in BOOLEAN
      BY DEF Init
    <2> QED BY <2>1, <2>2, <2>3 DEF BuilderType
  <1>4. Groups
    BY DEF Init, Groups, Run
  <1>5. Mismatched /\ ParseInv
    BY DEF Init, Mismatched, ParseInv
  <1> QED BY <1>1, <1>2, <1>3, <1>4, <1>5 DEF IInv, Typed

(* Before the query. *)
LEMMA IdleKeeps ==
  ASSUME IInv, qpc = "idle", UNCHANGED <<request, qpc, pending, result, builder>>
  PROVE  Typed' /\ Groups' /\ Mismatched' /\ ParseInv'
  <1>1. Typed'
    BY DEF IInv, Typed, QueryTypes, BuilderType, request, result, builder
  <1>2. blocks_to_process' = <<>> /\ qpc' = "idle" /\ last_end' = None
    BY DEF IInv, Groups, request
  <1>3. Groups'
    BY <1>2 DEF Groups, Run
  <1>4. Mismatched' /\ ParseInv'
    BY <1>2 DEF IInv, Mismatched, ParseInv, builder
  <1> QED BY <1>1, <1>3, <1>4

(* StartQuery selects blocks and has looked at none of them. *)
LEMMA StartQueryKeeps ==
  ASSUME IInv, NEW begin \in Times, NEW end \in Times, NEW limit \in Limits,
         StartQuery(begin, end, limit)
  PROVE  IInv'
  <1>0. RecorderType /\ QueryTypes /\ BuilderType /\ qpc = "idle" /\ qpc' = "group"
    BY DEF IInv, RecorderInv, Typed, StartQuery
  <1>1. UNCHANGED <<recorder, blocks_to_process, last_end, pending, result, builder>>
    BY DEF StartQuery
  <1>2. RecorderInv'
    BY <1>1, QueryKeepsRecorder DEF IInv
  <1>3. to_ticks(begin) \in Nat /\ to_ticks(end) \in Nat /\ limit \in Nat
    <2>1. begin \in Nat /\ end \in Nat /\ TicksPerNs \in Nat /\ limit \in Nat
      BY <1>0, QueryAssumption, TicksInOrder DEF Times, RecorderType
    <2> QED BY <2>1 DEF to_ticks
  <1>4. /\ query' = [begin |-> to_ticks(begin), end |-> to_ticks(end), limit |-> limit]
        /\ todo' = find_stream_blocks_in_range(to_ticks(begin), to_ticks(end))
    BY DEF StartQuery
  <1>5. query' \in QueryType /\ query'.begin = to_ticks(begin) /\ query'.end = to_ticks(end)
    BY <1>3, <1>4 DEF QueryType
  <1>6. todo' = Found(lake, to_ticks(begin), to_ticks(end))
    BY <1>0, <1>4, SelectionIs
  <1>7. Selection' = todo' /\ todo' \in Seq(BlockType) /\ Len(todo') \in Nat
    <2>1. Selection' = Found(lake, to_ticks(begin), to_ticks(end))
      BY <1>1, <1>5 DEF Selection, recorder
    <2>2. lake \in Seq(BlockType)
      BY <1>0 DEF RecorderType
    <2>3. todo' \in Seq(BlockType)
      BY <1>4, <2>2, FoundIs
    <2> QED BY <1>6, <2>1, <2>3, LenProperties
  <1>8. Typed'
    <2>1. QueryTypes'
      BY <1>0, <1>1, <1>5, <1>7 DEF QueryTypes, result
    <2>2. BuilderType'
      BY <1>0, <1>1 DEF BuilderType, builder
    <2> QED BY <2>1, <2>2 DEF Typed
  <1>9. blocks_to_process' = <<>> /\ last_end' = None /\ mismatch' = FALSE
    BY <1>0, <1>1 DEF IInv, Groups, Mismatched, builder, BuilderType
  <1>10. Groups'
    <2>1. LookedAt(todo', 0, todo', blocks_to_process', last_end', used', qpc')
      BY <1>7, <1>9 DEF LookedAt
    <2>2. Grouped(Selection', todo', blocks_to_process', last_end', used', qpc')
      BY <1>7, <2>1 DEF Grouped
    <2> QED BY <1>0, <1>9, <2>2 DEF Groups, Run
  <1>11. Mismatched' /\ ParseInv'
    BY <1>0, <1>9 DEF Mismatched, ParseInv
  <1> QED BY <1>2, <1>8, <1>10, <1>11 DEF IInv

(* The selection does not change during the query. *)
LEMMA SameSelection ==
  ASSUME UNCHANGED <<recorder, query>>
  PROVE  Selection' = Selection
  BY DEF Selection, recorder

(* A selected block after the ones that follow each other. *)
LEMMA GroupBlockKeeps ==
  ASSUME IInv, GroupBlock
  PROVE  IInv'
  <1> DEFINE bs == blocks_to_process
             b == Head(todo)
             sel == Selection
  <1>0. RecorderType /\ QueryTypes /\ BuilderType /\ qpc = "group" /\ qpc' = "group" /\ todo # <<>>
    BY DEF IInv, RecorderInv, Typed, GroupBlock
  <1>1. UNCHANGED <<recorder, query, qpc, pending, result, builder>>
    BY DEF GroupBlock
  <1>2. RecorderInv'
    BY <1>1, QueryKeepsRecorder DEF IInv
  <1>3. /\ last_end' = b.end_ticks /\ blocks_to_process' = Append(bs, b) /\ todo' = Tail(todo)
        /\ last_end \in {None, b.begin_ticks}
    BY DEF GroupBlock, Contiguous
  <1>4. todo \in Seq(BlockType) /\ bs \in Seq(BlockType)
    BY <1>0 DEF QueryTypes
  <1>5. /\ Len(todo) \in Nat \ {0} /\ b = todo[1] /\ b \in BlockType /\ todo' \in Seq(BlockType)
        /\ Len(todo') = Len(todo) - 1
        /\ \A i \in 1 .. Len(todo) - 1 : todo'[i] = todo[i + 1]
    BY <1>0, <1>3, <1>4, TailIs
  <1>6. /\ blocks_to_process' \in Seq(BlockType) /\ Len(blocks_to_process') = Len(bs) + 1
        /\ Len(bs) \in Nat
        /\ \A i \in 1 .. Len(bs) : blocks_to_process'[i] = bs[i]
        /\ blocks_to_process'[Len(bs) + 1] = b
    BY <1>3, <1>4, <1>5, AppendIs
  <1>7. Last(blocks_to_process') = b /\ blocks_to_process' # <<>>
    <2>1. Len(blocks_to_process') # 0
      BY <1>6
    <2>2. blocks_to_process' # <<>>
      BY <2>1
    <2> QED BY <1>6, <2>2, FrontIs
  <1> HIDE DEF b, bs
  <1>8. b.end_ticks \in Nat
    BY <1>5 DEF BlockType
  <1>9. Typed'
    <2>1. QueryTypes'
      BY <1>0, <1>1, <1>3, <1>5, <1>6, <1>8 DEF QueryTypes, result
    <2>2. BuilderType'
      BY <1>0, <1>1 DEF BuilderType, builder
    <2> QED BY <2>1, <2>2 DEF Typed
  <1>10. /\ Selection' = sel /\ Len(sel) \in Nat
         /\ \A i \in 1 .. Len(sel) : \E n \in 1 .. Len(lake) : sel[i] = lake[n]
    BY <1>0, <1>1, SelectionIs, SameSelection
  <1> HIDE DEF sel
  <1>11. PICK p \in 0 .. Len(sel) : LookedAt(sel, p, todo, bs, last_end, used, qpc)
    BY <1>0 DEF IInv, Groups, Grouped, sel, bs
  <1>12. /\ Len(todo) = Len(sel) - p /\ \A i \in 1 .. Len(todo) : todo[i] = sel[p + i]
         /\ \A i \in 1 .. p : Handled(sel, i, used, bs)
         /\ bs # <<>> => p >= 1 /\ Last(bs) = sel[p] /\ last_end = Last(bs).end_ticks
    BY <1>0, <1>11 DEF LookedAt
  <1>13. p + 1 \in 0 .. Len(sel) /\ p + 1 \in 1 .. Len(sel) /\ b = sel[p + 1]
    BY <1>5, <1>10, <1>12
  <1>14. LookedAt(sel, p + 1, todo', blocks_to_process', last_end', used', qpc')
    <2>1. Len(todo') = Len(sel) - (p + 1)
      BY <1>5, <1>10, <1>12
    <2>2. ASSUME NEW i \in 1 .. Len(todo') PROVE todo'[i] = sel[(p + 1) + i]
      <3>1. i \in 1 .. Len(todo) - 1 /\ i + 1 \in 1 .. Len(todo) /\ p + (i + 1) = (p + 1) + i
        BY <1>5, <1>13
      <3> QED BY <1>5, <1>12, <3>1
    <2>3. ASSUME NEW i \in 1 .. p + 1 PROVE Handled(sel, i, used', blocks_to_process')
      <3>0. used' = used
        BY <1>1 DEF result
      <3>1. CASE i = p + 1
        <4>1. Len(bs) + 1 \in 1 .. Len(blocks_to_process')
          BY <1>6
        <4> QED BY <1>6, <1>13, <3>1, <4>1 DEF Handled
      <3>2. CASE i # p + 1
        <4>1. i \in 1 .. p
          BY <3>2
        <4>2. Handled(sel, i, used, bs)
          BY <1>12, <4>1
        <4>3. \A x \in 1 .. Len(bs) : x \in 1 .. Len(blocks_to_process') /\ blocks_to_process'[x] = bs[x]
          BY <1>6
        <4> QED BY <3>0, <4>2, <4>3 DEF Handled
      <3> QED BY <3>1, <3>2
    <2>4. p + 1 >= 1 /\ Last(blocks_to_process') = sel[p + 1] /\ last_end' = Last(blocks_to_process').end_ticks
      BY <1>3, <1>7, <1>13
    <2> QED BY <2>1, <2>2, <2>3, <2>4 DEF LookedAt
  <1>15. Run(bs)
    BY DEF IInv, Groups, bs
  <1>16. Run(blocks_to_process)'
    <2>1. lake' = lake
      BY <1>1 DEF recorder
    <2>2. ASSUME NEW x \in 1 .. Len(blocks_to_process')
          PROVE  \E k \in 1 .. Len(lake') : blocks_to_process'[x] = lake'[k]
      <3>1. CASE x = Len(bs) + 1
        BY <1>6, <1>10, <1>13, <2>1, <3>1
      <3>2. CASE x # Len(bs) + 1
        <4>1. x \in 1 .. Len(bs)
          BY <1>6, <3>2
        <4> QED BY <1>6, <1>15, <2>1, <4>1 DEF Run
      <3> QED BY <3>1, <3>2
    <2>3. ASSUME NEW x \in 1 .. Len(blocks_to_process') - 1
          PROVE  blocks_to_process'[x].end_ticks = blocks_to_process'[x + 1].begin_ticks
      <3>1. CASE x = Len(bs)
        <4>1. Len(bs) # 0 /\ x \in 1 .. Len(bs)
          BY <1>6, <3>1
        <4>2. bs # <<>>
          BY <4>1
        <4>3. Last(bs) = bs[Len(bs)] /\ Last(bs) \in BlockType
          BY <1>4, <4>2, FrontIs DEF bs
        <4>4. last_end = bs[x].end_ticks /\ last_end \in Nat
          BY <1>12, <3>1, <4>2, <4>3 DEF BlockType
        <4>5. last_end = b.begin_ticks
          BY <1>3, <4>4, QueryAssumption
        <4> QED BY <1>6, <3>1, <4>1, <4>4, <4>5
      <3>2. CASE x # Len(bs)
        <4>1. x \in 1 .. Len(bs) - 1 /\ x \in 1 .. Len(bs) /\ x + 1 \in 1 .. Len(bs)
          BY <1>6, <3>2
        <4> QED BY <1>6, <1>15, <4>1 DEF Run
      <3> QED BY <3>1, <3>2
    <2> QED BY <2>2, <2>3 DEF Run
  <1>17. Groups'
    <2>1. Grouped(sel, todo', blocks_to_process', last_end', used', qpc')
      BY <1>13, <1>14 DEF Grouped
    <2>2. (qpc # "idle" => Grouped(Selection, todo, blocks_to_process, last_end, used, qpc))'
      BY <1>10, <2>1
    <2> QED BY <1>0, <1>7, <1>16, <2>2 DEF Groups
  <1>18. Mismatched' /\ ParseInv'
    BY <1>0, <1>1 DEF IInv, Mismatched, ParseInv, builder
  <1> QED BY <1>2, <1>9, <1>17, <1>18 DEF IInv

(* Larger and Smaller are one of the two. *)
LEMMA StartRange ==
  ASSUME NEW a \in Nat, NEW b \in Nat, NEW c \in Nat, NEW d \in Nat, NEW l \in Nat, NEW m \in Nat
  PROVE  [begin |-> ticks_to_nanoseconds(Larger(a, b)), end |-> ticks_to_nanoseconds(Smaller(c, d)),
          limit |-> l - m] \in RangeType
  <1>1. Larger(a, b) \in Nat /\ Smaller(c, d) \in Nat /\ l - m \in Int
    BY DEF Larger, Smaller
  <1>2. ticks_to_nanoseconds(Larger(a, b)) \in Nat /\ ticks_to_nanoseconds(Smaller(c, d)) \in Nat
    BY <1>1, TicksInOrder
  <1> QED BY <1>1, <1>2 DEF RangeType

(* The tree of a run is started. *)
LEMMA StartTreeKeeps ==
  ASSUME IInv, qpc = "group", StartCallTree, blocks_to_process # <<>>, UNCHANGED blocks_to_process,
         last_end' = None, todo' \in Seq(BlockType),
         Grouped(Selection, todo', blocks_to_process, None, used', "parse")
  PROVE  IInv'
  <1> DEFINE bs == blocks_to_process
  <1>0. RecorderType /\ LakeInv /\ QueryTypes /\ BuilderType /\ qpc' = "parse" /\ query \in QueryType
    BY DEF IInv, RecorderInv, Typed, StartCallTree, QueryTypes
  <1>1. UNCHANGED <<recorder, query, rows>>
    BY DEF StartCallTree
  <1>2. RecorderInv'
    BY <1>1, QueryKeepsRecorder DEF IInv
  <1>3. bs \in Seq(BlockType) /\ bs # <<>> /\ Run(bs) /\ Len(bs) \in Nat \ {0}
    BY <1>0, FrontIs DEF QueryTypes, IInv, Groups
  <1>4. /\ Pending(pending', FirstOf(bs), LastOf(bs), Len(trace))
        /\ pending' \in Seq(Seq(Nat)) /\ FirstOf(bs) \in Nat \ {0}
    <2>1. pending' = [i \in DOMAIN bs |-> EventIds(bs[i])]
      BY DEF StartCallTree
    <2> HIDE DEF bs
    <2> QED BY <1>0, <1>3, <2>1, PendingStart
  <1>5. range' \in RangeType
    <2>1. bs[1] \in BlockType /\ Last(bs) \in BlockType
      BY <1>3, FrontIs, ElementOfSeq
    <2>2. bs[1].begin_ticks \in Nat /\ Last(bs).end_ticks \in Nat
      BY <2>1 DEF BlockType
    <2>3. query.begin \in Nat /\ query.end \in Nat /\ query.limit \in Nat /\ Len(rows) \in Nat
      BY <1>0, LenProperties DEF QueryTypes, QueryType
    <2>4. range' = [begin |-> ticks_to_nanoseconds(Larger(query.begin, bs[1].begin_ticks)),
                    end |-> ticks_to_nanoseconds(Smaller(query.end, Last(bs).end_ticks)),
                    limit |-> query.limit - Len(rows)]
      BY DEF StartCallTree, NewBuilder
    <2> HIDE DEF bs
    <2> QED BY <2>2, <2>3, <2>4, StartRange
  <1>6. nb_spans' = 0 /\ stack' = <<>> /\ cont' = TRUE /\ mismatch' = mismatch
    BY DEF StartCallTree, NewBuilder
  <1>7. mismatch = FALSE
    BY <1>0 DEF IInv, Mismatched, BuilderType
  <1>8. Typed'
    <2>1. query' \in QueryType \cup {None} /\ (qpc' # "idle" => query' \in QueryType)
          /\ qpc' \in {"idle", "group", "parse", "done"}
      BY <1>0, <1>1
    <2>2. blocks_to_process' \in Seq(BlockType) /\ rows' \in Seq(RowType) /\ last_end' \in Nat \cup {None}
      BY <1>0, <1>1 DEF QueryTypes
    <2>3. QueryTypes'
      BY <1>4, <2>1, <2>2 DEF QueryTypes
    <2>4. stack' \in Seq(NodeType)
      BY <1>6
    <2>5. cont' \in BOOLEAN /\ mismatch' \in BOOLEAN
      BY <1>6, <1>7
    <2>6. BuilderType'
      BY <1>5, <1>6, <2>4, <2>5 DEF BuilderType
    <2> QED BY <2>3, <2>6 DEF Typed
  <1>9. Groups'
    <2>1. Selection' = Selection
      BY <1>1, SameSelection
    <2>2. (qpc # "idle" => Grouped(Selection, todo, blocks_to_process, last_end, used, qpc))'
      BY <1>0, <2>1
    <2>3. Run(blocks_to_process)'
      BY <1>1, <1>3 DEF Run, recorder
    <2>4. \A x \in 1 .. Len(bs) : bs[x] \in used'
      <3>1. used' = used \cup ToSet(bs) /\ DOMAIN bs = 1 .. Len(bs)
        BY <1>3, LenProperties DEF StartCallTree
      <3> HIDE DEF bs
      <3> QED BY <3>1 DEF ToSet
    <2> QED BY <1>0, <2>2, <2>3, <2>4 DEF Groups
  <1>10. ParseInv'
    <2> DEFINE lo == FirstOf(bs)
    <2>1. FirstOf(blocks_to_process)' = lo /\ LastOf(blocks_to_process)' = LastOf(bs) /\ trace' = trace
      BY <1>1 DEF FirstOf, LastOf, recorder
    <2>2. lo \in Nat \ {0} /\ lo <= lo
      BY <1>4
    <2>3. StackOk(stack', range', 0) /\ \A k \in lo .. Len(trace) : 0 <= T(trace, k)
      <3>1. \A k \in lo .. Len(trace) : k \in 1 .. Len(trace)
        <4>1. Len(trace) \in Nat
          BY <1>0, EventFields
        <4> HIDE DEF lo
        <4> QED BY <2>2, <4>1
      <3>2. \A k \in lo .. Len(trace) : 0 <= T(trace, k)
        BY <1>0, <3>1, TimesInOrder
      <3>3. Len(stack') = 0 /\ stack' \in Seq(NodeType)
        BY <1>6
      <3> QED BY <1>6, <3>2, <3>3 DEF StackOk
    <2>4. Parsed(trace, range', lo, lo) = {}
      <3> HIDE DEF lo
      <3>1. lo .. lo - 1 = {}
        BY <2>2
      <3> QED BY <3>1 DEF Parsed
    <2>5. TreeAt(trace, range', nb_spans', stack', lo, lo)
      BY <1>6, <2>3, <2>4 DEF TreeAt, InSync
    <2> HIDE DEF lo
    <2>6. Pending(pending', lo, LastOf(bs), Len(trace))
      BY <1>4 DEF lo
    <2> QED BY <2>1, <2>2, <2>5, <2>6 DEF ParseInv
  <1>11. Mismatched'
    BY <1>6, <1>7 DEF Mismatched
  <1> QED BY <1>2, <1>8, <1>9, <1>10, <1>11 DEF IInv

(* More blocks in trees. *)
LEMMA HandledMore ==
  ASSUME NEW sel, NEW i, NEW us, NEW vs, us \subseteq vs, NEW bs, NEW cs,
         \A x \in 1 .. Len(bs) : bs[x] \in vs \/ \E y \in 1 .. Len(cs) : cs[y] = bs[x],
         Handled(sel, i, us, bs)
  PROVE  Handled(sel, i, vs, cs)
  BY DEF Handled

(* GapBlock: the block that is dropped does not begin where the one before *)
(* it ended, so that it is accounted for.                                  *)
LEMMA GapBlockKeeps ==
  ASSUME IInv, GapBlock
  PROVE  IInv'
  <1> DEFINE bs == blocks_to_process
             b == Head(todo)
             sel == Selection
  <1>0. RecorderType /\ QueryTypes /\ qpc = "group" /\ todo # <<>>
    BY DEF IInv, RecorderInv, Typed, GapBlock
  <1>1. /\ StartCallTree /\ UNCHANGED blocks_to_process /\ last_end' = None /\ todo' = Tail(todo)
        /\ last_end # None /\ last_end # b.begin_ticks
    BY DEF GapBlock, Contiguous
  <1>2. bs # <<>>
    BY <1>1 DEF IInv, Groups
  <1>3. todo \in Seq(BlockType)
    BY <1>0 DEF QueryTypes
  <1>4. /\ Len(todo) \in Nat \ {0} /\ b = todo[1] /\ todo' \in Seq(BlockType)
        /\ Len(todo') = Len(todo) - 1
        /\ \A i \in 1 .. Len(todo) - 1 : todo'[i] = todo[i + 1]
    BY <1>0, <1>1, <1>3, TailIs
  <1>5. Len(sel) \in Nat
    BY <1>0, SelectionIs
  <1>6. used \subseteq used'
    BY <1>1 DEF StartCallTree
  <1> HIDE DEF b, bs, sel
  <1>7. PICK p \in 0 .. Len(sel) : LookedAt(sel, p, todo, bs, last_end, used, qpc)
    BY <1>0 DEF IInv, Groups, Grouped, sel, bs
  <1>8. /\ Len(todo) = Len(sel) - p /\ \A i \in 1 .. Len(todo) : todo[i] = sel[p + i]
        /\ \A i \in 1 .. p : Handled(sel, i, used, bs)
        /\ p >= 1 /\ Last(bs) = sel[p] /\ last_end = Last(bs).end_ticks
    BY <1>0, <1>2, <1>7 DEF LookedAt
  <1>9. p + 1 \in 0 .. Len(sel) /\ b = sel[p + 1] /\ (p + 1) - 1 = p /\ p + 1 > 1
    BY <1>4, <1>5, <1>8
  <1>10. LookedAt(sel, p + 1, todo', bs, None, used', "parse")
    <2>1. Len(todo') = Len(sel) - (p + 1)
      BY <1>4, <1>5, <1>8
    <2>2. ASSUME NEW i \in 1 .. Len(todo') PROVE todo'[i] = sel[(p + 1) + i]
      <3>1. i \in 1 .. Len(todo) - 1 /\ i + 1 \in 1 .. Len(todo) /\ p + (i + 1) = (p + 1) + i
        BY <1>4, <1>9
      <3> QED BY <1>4, <1>8, <3>1
    <2>3. ASSUME NEW i \in 1 .. p + 1 PROVE Handled(sel, i, used', bs)
      <3>1. CASE i = p + 1
        <4>1. sel[i - 1].end_ticks # sel[i].begin_ticks
          BY <1>1, <1>8, <1>9, <3>1
        <4> QED BY <1>9, <3>1, <4>1 DEF Handled
      <3>2. CASE i # p + 1
        <4>1. i \in 1 .. p
          BY <3>2
        <4> QED BY <1>6, <1>8, <4>1, HandledMore
      <3> QED BY <3>1, <3>2
    <2> QED BY <2>1, <2>2, <2>3 DEF LookedAt
  <1>11. Grouped(sel, todo', bs, None, used', "parse")
    BY <1>9, <1>10 DEF Grouped
  <1> QED BY <1>0, <1>1, <1>2, <1>4, <1>11, StartTreeKeeps DEF sel, bs

(* LastRun starts the tree of the last run of blocks. *)
LEMMA LastRunKeeps ==
  ASSUME IInv, LastRun
  PROVE  IInv'
  <1>0. /\ qpc = "group" /\ blocks_to_process # <<>> /\ StartCallTree /\ last_end' = None
        /\ todo' = todo /\ UNCHANGED blocks_to_process /\ todo \in Seq(BlockType)
    BY DEF IInv, Typed, QueryTypes, LastRun
  <1>1. used \subseteq used'
    BY <1>0 DEF StartCallTree
  <1>2. PICK p \in 0 .. Len(Selection) :
           LookedAt(Selection, p, todo, blocks_to_process, last_end, used, qpc)
    BY <1>0 DEF IInv, Groups, Grouped
  <1>3. \A i \in 1 .. p : Handled(Selection, i, used', blocks_to_process)
    <2>1. \A i \in 1 .. p : Handled(Selection, i, used, blocks_to_process)
      BY <1>2 DEF LookedAt
    <2> QED BY <1>1, <2>1, HandledMore
  <1>4. LookedAt(Selection, p, todo', blocks_to_process, None, used', "parse")
    BY <1>0, <1>2, <1>3 DEF LookedAt
  <1>5. Grouped(Selection, todo', blocks_to_process, None, used', "parse")
    BY <1>4 DEF Grouped
  <1> QED BY <1>0, <1>5, StartTreeKeeps

(* NoRunLeft: all blocks are accounted for when the query is done. *)
LEMMA NoRunLeftKeeps ==
  ASSUME IInv, NoRunLeft
  PROVE  IInv'
  <1>0. /\ qpc = "group" /\ qpc' = "done" /\ todo = <<>> /\ blocks_to_process = <<>>
        /\ UNCHANGED <<recorder, request, pending, result, builder>>
    BY DEF NoRunLeft
  <1>1. RecorderInv'
    BY <1>0, QueryKeepsRecorder DEF IInv
  <1>2. Typed'
    <2>1. QueryTypes'
      BY <1>0 DEF IInv, Typed, QueryTypes, request, result
    <2>2. BuilderType'
      BY <1>0 DEF IInv, Typed, BuilderType, builder
    <2> QED BY <2>1, <2>2 DEF Typed
  <1>3. Groups'
    <2>1. UNCHANGED <<recorder, query, todo, blocks_to_process, last_end, used, rows, mismatch>>
      BY <1>0 DEF request, result, builder
    <2>2. Selection' = Selection
      BY <2>1, SameSelection
    <2>3. PICK p \in 0 .. Len(Selection) :
             LookedAt(Selection, p, todo, blocks_to_process, last_end, used, qpc)
      BY <1>0 DEF IInv, Groups, Grouped
    <2>4. LookedAt(Selection, p, todo, blocks_to_process, last_end, used, "done")
      BY <2>3 DEF LookedAt
    <2>5. Grouped(Selection, todo, blocks_to_process, last_end, used, "done")
      BY <2>4 DEF Grouped
    <2>6. (qpc # "idle" => Grouped(Selection, todo, blocks_to_process, last_end, used, qpc))'
      BY <1>0, <2>1, <2>2, <2>5
    <2>7. Run(blocks_to_process)'
      BY <1>0, <2>1 DEF Run
    <2>8. last_end' = None
      BY <1>0, <2>1 DEF IInv, Groups
    <2> QED BY <1>0, <2>1, <2>6, <2>7, <2>8 DEF Groups
  <1>4. Mismatched' /\ ParseInv'
    BY <1>0 DEF IInv, Mismatched, ParseInv, LimitReached, builder
  <1> QED BY <1>1, <1>2, <1>3, <1>4 DEF IInv

(* What a step of the parser leaves alone. *)
LEMMA GroupsStay ==
  ASSUME IInv, qpc = "parse", UNCHANGED <<recorder, request, result>>,
         qpc' = "parse" \/ (qpc' = "done" /\ mismatch')
  PROVE  Groups'
  <1>1. UNCHANGED <<recorder, query, todo, blocks_to_process, last_end, used, rows>>
    BY DEF request, result
  <1>2. Selection' = Selection
    BY <1>1, SameSelection
  <1>3. PICK p \in 0 .. Len(Selection) :
           LookedAt(Selection, p, todo, blocks_to_process, last_end, used, qpc)
    BY DEF IInv, Groups, Grouped
  <1>4. LookedAt(Selection, p, todo, blocks_to_process, last_end, used, qpc')
    BY <1>3 DEF LookedAt
  <1>5. Grouped(Selection, todo, blocks_to_process, last_end, used, qpc')
    BY <1>4 DEF Grouped
  <1>6. (qpc # "idle" => Grouped(Selection, todo, blocks_to_process, last_end, used, qpc))'
    BY <1>1, <1>2, <1>5
  <1>7. Run(blocks_to_process)'
    BY <1>1 DEF Run, IInv, Groups, recorder
  <1>8. /\ last_end = None /\ blocks_to_process # <<>>
        /\ \A x \in 1 .. Len(blocks_to_process) : blocks_to_process[x] \in used
    BY DEF IInv, Groups
  <1>9. ~(qpc' = "idle") /\ ~(qpc' = "done" /\ ~mismatch')
    OBVIOUS
  <1> QED BY <1>1, <1>6, <1>7, <1>8, <1>9 DEF Groups

(* NextBlock: the blocks of a run have consecutive events, so that the     *)
(* tree goes on where the last one ended.                                  *)
LEMMA NextBlockKeeps ==
  ASSUME IInv, NextBlock
  PROVE  IInv'
  <1>0. /\ qpc = "parse" /\ pending # <<>> /\ pending[1] = <<>> /\ pending' = Tail(pending)
        /\ UNCHANGED <<recorder, request, qpc, result, builder>>
    BY DEF NextBlock
  <1>1. RecorderInv'
    BY <1>0, QueryKeepsRecorder DEF IInv
  <1>2. pending \in Seq(Seq(Nat)) /\ Tail(pending) \in Seq(Seq(Nat))
    BY <1>0, TailIs DEF IInv, Typed, QueryTypes
  <1>3. Typed'
    <2>1. QueryTypes'
      BY <1>0, <1>2 DEF IInv, Typed, QueryTypes, request, result
    <2>2. BuilderType'
      BY <1>0 DEF IInv, Typed, BuilderType, builder
    <2> QED BY <2>1, <2>2 DEF Typed
  <1>4. Groups'
    BY <1>0, GroupsStay
  <1>5. Mismatched'
    BY <1>0 DEF IInv, Mismatched, LimitReached, builder
  <1>6. ParseInv'
    <2>1. PICK n \in Nat \ {0} :
            /\ FirstOf(blocks_to_process) \in Nat \ {0} /\ FirstOf(blocks_to_process) <= n
            /\ Pending(pending, n, LastOf(blocks_to_process), Len(trace))
            /\ TreeAt(trace, range, nb_spans, stack, FirstOf(blocks_to_process), n)
      BY <1>0 DEF IInv, ParseInv
    <2> DEFINE m == n + Len(pending[1])
    <2>2. m = n
      BY <1>0
    <2>3. Pending(Tail(pending), m, LastOf(blocks_to_process), Len(trace))
      BY <1>0, <1>2, <2>1, PendingTail
    <2> HIDE DEF m
    <2>4. UNCHANGED <<blocks_to_process, trace, range, nb_spans, stack>>
      BY <1>0 DEF request, recorder, builder
    <2>5. UNCHANGED <<FirstOf(blocks_to_process), LastOf(blocks_to_process)>>
      BY <2>4 DEF FirstOf, LastOf
    <2> QED BY <1>0, <2>1, <2>2, <2>3, <2>4, <2>5 DEF ParseInv
  <1> QED BY <1>1, <1>3, <1>4, <1>5, <1>6 DEF IInv

(* FinishCallTree appends the rows and forgets the run. *)
LEMMA FinishKeeps ==
  ASSUME IInv, FinishCallTree
  PROVE  IInv'
  <1>0. /\ qpc = "parse" /\ pending = <<>> /\ rows' = append_call_tree(rows)
        /\ qpc' = (IF SpaceLeft(Len(rows')) THEN "group" ELSE "done") /\ blocks_to_process' = <<>>
        /\ UNCHANGED <<recorder, query, todo, last_end, pending, used, builder>>
    BY DEF FinishCallTree
  <1>1. RecorderInv'
    BY <1>0, QueryKeepsRecorder DEF IInv
  <1>2. QueryTypes /\ BuilderType /\ query \in QueryType /\ rows \in Seq(RowType)
    BY <1>0 DEF IInv, Typed, QueryTypes
  <1>3. rows' \in Seq(RowType)
    <2>1. CASE stack = <<>>
      BY <1>0, <1>2, <2>1 DEF append_call_tree
    <2>2. CASE stack # <<>>
      <3>1. PICK now : StackOk(stack, range, now)
        BY <1>0 DEF IInv, ParseInv, TreeAt
      <3>2. range \in RangeType
        BY <1>2 DEF BuilderType
      <3> QED BY <1>0, <1>2, <2>2, <3>1, <3>2, TreeRows
    <2> QED BY <2>1, <2>2
  <1>4. qpc' \in {"group", "done"} /\ (qpc' = "done" => ~(Len(rows') < query'.limit))
    BY <1>0 DEF SpaceLeft
  <1>5. Typed'
    <2>1. QueryTypes'
      BY <1>0, <1>2, <1>3, <1>4 DEF QueryTypes
    <2>2. BuilderType'
      BY <1>0, <1>2 DEF BuilderType, builder
    <2> QED BY <2>1, <2>2 DEF Typed
  <1>6. Groups'
    <2>1. Selection' = Selection
      BY <1>0, SameSelection
    <2>2. PICK p \in 0 .. Len(Selection) :
             LookedAt(Selection, p, todo, blocks_to_process, last_end, used, qpc)
      BY <1>0 DEF IInv, Groups, Grouped
    <2>3. /\ last_end = None
          /\ \A x \in 1 .. Len(blocks_to_process) : blocks_to_process[x] \in used
      BY <1>0 DEF IInv, Groups
    <2>4. \A i \in 1 .. p : Handled(Selection, i, used, blocks_to_process')
      <3>1. \A i \in 1 .. p : Handled(Selection, i, used, blocks_to_process)
        BY <2>2 DEF LookedAt
      <3> QED BY <2>3, <3>1, HandledMore
    <2>5. LookedAt(Selection, p, todo, blocks_to_process', last_end, used, qpc')
      BY <1>0, <2>2, <2>4 DEF LookedAt
    <2>6. Grouped(Selection, todo, blocks_to_process', last_end, used, qpc')
      BY <2>5 DEF Grouped
    <2>7. (qpc # "idle" => Grouped(Selection, todo, blocks_to_process, last_end, used, qpc))'
      BY <1>0, <2>1, <2>6
    <2>8. Run(blocks_to_process)'
      BY <1>0 DEF Run
    <2>9. qpc' # "idle" /\ qpc' # "parse"
      BY <1>4
    <2> QED BY <1>0, <1>4, <2>3, <2>7, <2>8, <2>9 DEF Groups
  <1>7. Mismatched'
    BY <1>0 DEF IInv, Mismatched, builder
  <1>8. ParseInv'
    BY <1>4 DEF ParseInv
  <1> QED BY <1>1, <1>5, <1>6, <1>7, <1>8 DEF IInv

(* The event n is parsed. *)
LEMMA ParseCases ==
  ASSUME RecorderType, BuilderType, NEW n \in 1 .. Len(trace), pending[1][1] = n - 1, ParseEvent
  PROVE  Passed(n) \/ Taken(n) \/ Failed(n)
  <1>1. trace[n].kind \in {"begin", "end"} /\ n \in Nat /\ (n - 1) + 1 = n
    BY EventFields
  <1>2. \/ trace[n].kind = "begin" /\ on_begin_thread_scope(n - 1, trace[n].hash, T(trace, n))
        \/ trace[n].kind = "end" /\ on_end_thread_scope(n - 1, trace[n].hash, T(trace, n))
    <2> DEFINE id == pending[1][1]
               e == trace[id + 1]
               t == ticks_to_nanoseconds(e.time)
    <2>1. \/ e.kind = "begin" /\ on_begin_thread_scope(id, e.hash, t)
          \/ e.kind = "end" /\ on_end_thread_scope(id, e.hash, t)
      BY DEF ParseEvent
    <2>2. id = n - 1 /\ e = trace[n]
      BY <1>1
    <2>3. t = T(trace, n)
      BY <2>2 DEF T
    <2> HIDE DEF id, e, t
    <2> QED BY <2>1, <2>2, <2>3
  <1> QED BY <1>2, BeginCases, EndCases

(* ParseEvent: each handler keeps the stack nested and in step with the    *)
(* history, and none fails before the limit is reached.                    *)
LEMMA ParseEventKeeps ==
  ASSUME IInv, ParseEvent
  PROVE  IInv'
  <1> DEFINE lo == FirstOf(blocks_to_process)
             hi == LastOf(blocks_to_process)
             N == Len(trace)
             rest == [pending EXCEPT ![1] = Tail(@)]
  <1>0. /\ qpc = "parse" /\ pending # <<>> /\ pending[1] # <<>>
        /\ pending' = (IF cont' THEN rest ELSE Tail(pending))
        /\ qpc' = (IF mismatch' THEN "done" ELSE "parse")
        /\ UNCHANGED <<recorder, request, result>>
    BY DEF ParseEvent
  <1>1. RecorderInv'
    BY <1>0, QueryKeepsRecorder DEF IInv
  <1>2. /\ RecorderType /\ LakeInv /\ HistoryInv /\ QueryTypes /\ BuilderType
        /\ pending \in Seq(Seq(Nat)) /\ N \in Nat /\ trace \in Seq(EventType)
    BY EventFields DEF IInv, Typed, RecorderInv, QueryTypes, RecorderType
  <1>3. mismatch = FALSE
    BY <1>0, <1>2 DEF IInv, Mismatched, BuilderType
  <1>4. PICK n \in Nat \ {0} : /\ lo \in Nat \ {0} /\ lo <= n /\ Pending(pending, n, hi, N)
                               /\ TreeAt(trace, range, nb_spans, stack, lo, n)
    BY <1>0 DEF IInv, ParseInv
  <1> HIDE DEF lo, hi, rest
  <1>5. n \in 1 .. N /\ pending[1][1] = n - 1 /\ Pending(rest, n + 1, hi, N) /\ rest \in Seq(Seq(Nat))
    BY <1>0, <1>2, <1>4, PendingHead DEF rest
  <1> DEFINE m == n + Len(pending[1])
  <1>6. Pending(Tail(pending), m, hi, N) /\ m \in Nat \ {0} /\ m >= n /\ Tail(pending) \in Seq(Seq(Nat))
    BY <1>0, <1>2, <1>4, PendingTail, TailIs
  <1>7. Passed(n) \/ Taken(n) \/ Failed(n)
    BY <1>2, <1>5, ParseCases
  <1> HIDE DEF N, m
  <1>8. PICK now : StackOk(stack, range, now) /\ \A k \in n .. Len(trace) : now <= T(trace, k)
    BY <1>4 DEF TreeAt
  <1>9. pending' \in Seq(Seq(Nat)) /\ qpc' \in {"done", "parse"}
    BY <1>0, <1>5, <1>6
  <1>10. QueryTypes'
    BY <1>0, <1>2, <1>9 DEF QueryTypes, request, result
  <1>11. UNCHANGED <<blocks_to_process, trace>> /\ lo = FirstOf(blocks_to_process)'
         /\ hi = LastOf(blocks_to_process)' /\ Len(trace') = N
    BY <1>0 DEF request, recorder, lo, hi, N, FirstOf, LastOf
  <1>12. CASE Passed(n)
    <2>1. /\ UNCHANGED <<range, nb_spans, stack, mismatch>> /\ cont' \in BOOLEAN
          /\ LimitReached \/ ~In(range, T(trace, n))
          /\ ~cont' => LimitReached \/ T(trace, n) > range.end
      BY <1>12 DEF Passed
    <2>2. BuilderType'
      BY <1>2, <2>1 DEF BuilderType
    <2>3. qpc' = "parse" /\ Mismatched'
      BY <1>0, <1>3, <2>1 DEF Mismatched
    <2>4. Groups'
      BY <1>0, <2>3, GroupsStay
    <2>5. ASSUME cont' PROVE ParseInv'
      <3>1. \A k \in n .. (n + 1) - 1 : k = n
        OBVIOUS
      <3>2. n + 1 >= n /\ n + 1 \in Nat \ {0} /\ lo <= n + 1
        BY <1>4
      <3>3. TreeAt(trace, range, nb_spans, stack, lo, n + 1)
        BY <1>2, <1>4, <2>1, <3>1, <3>2, TreePassed DEF N
      <3>4. pending' = rest
        BY <1>0, <2>5
      <3> QED BY <1>4, <1>5, <1>11, <2>1, <3>2, <3>3, <3>4 DEF ParseInv
    <2>6. ASSUME ~cont' PROVE ParseInv'
      <3>1. ASSUME T(trace, n) > range.end, NEW k \in n .. m - 1 PROVE ~In(range, T(trace, k))
        <4>1. k \in 1 .. N /\ n <= k
          <5>1. Len(pending[1]) \in Nat /\ m - 1 <= N /\ m = n + Len(pending[1])
            <6>1. Len(pending[1]) \in Nat
              BY <1>2, <1>0, TailIs, LenProperties
            <6> QED BY <1>0, <1>2, <1>4, <6>1, PendingEnd DEF m
          <5> QED BY <1>2, <1>5, <5>1
        <4>2. T(trace, n) <= T(trace, k) /\ T(trace, n) \in Nat /\ T(trace, k) \in Nat
          BY <1>2, <1>5, <4>1, TimesInOrder DEF N
        <4>3. range.end \in Nat
          BY <1>2, RangeFields DEF BuilderType
        <4> QED BY <3>1, <4>2, <4>3 DEF In
      <3>2. LimitReached \/ \A k \in n .. m - 1 : ~In(range, T(trace, k))
        BY <2>1, <2>6, <3>1
      <3>3. lo <= m
        BY <1>4, <1>6
      <3>4. TreeAt(trace, range, nb_spans, stack, lo, m)
        BY <1>2, <1>4, <1>6, <3>2, TreePassed DEF N
      <3>5. pending' = Tail(pending)
        BY <1>0, <2>6
      <3> QED BY <1>4, <1>6, <1>11, <2>1, <3>3, <3>4, <3>5 DEF ParseInv
    <2> QED BY <1>1, <1>10, <2>2, <2>3, <2>4, <2>5, <2>6 DEF IInv, Typed
  <1>13. CASE Taken(n)
    <2>1. UNCHANGED <<range, mismatch>> /\ cont' = TRUE /\ nb_spans' \in {nb_spans, nb_spans + 1}
      BY <1>13 DEF Taken
    <2>2. TreeAt(trace, range', nb_spans', stack', lo, n + 1)
      BY <1>2, <1>4, <1>5, <1>13, <2>1, TreeTaken DEF N
    <2>3. stack' \in Seq(NodeType)
      BY <2>2 DEF TreeAt, StackOk
    <2>4. BuilderType'
      <3>1. nb_spans' \in Nat
        BY <1>2, <2>1 DEF BuilderType
      <3> QED BY <1>2, <2>1, <2>3, <3>1 DEF BuilderType
    <2>5. qpc' = "parse" /\ Mismatched'
      BY <1>0, <1>3, <2>1 DEF Mismatched
    <2>6. Groups'
      BY <1>0, <2>5, GroupsStay
    <2>7. ParseInv'
      <3>1. n + 1 \in Nat \ {0} /\ lo <= n + 1
        BY <1>4
      <3>2. pending' = rest
        BY <1>0, <2>1
      <3> QED BY <1>4, <1>5, <1>11, <2>2, <3>1, <3>2 DEF ParseInv
    <2> QED BY <1>1, <1>10, <2>4, <2>5, <2>6, <2>7 DEF IInv, Typed
  <1>14. CASE Failed(n)
    <2>1. /\ UNCHANGED <<range, nb_spans, stack, cont>> /\ mismatch' = TRUE
          /\ In(range, T(trace, n)) /\ trace[n].kind = "end" /\ stack # <<>>
          /\ Last(stack).hash \notin {trace[n].hash, RootHash}
      BY <1>14 DEF Failed
    <2>2. BuilderType'
      BY <1>2, <2>1 DEF BuilderType
    <2>3. qpc' = "done"
      BY <1>0, <2>1
    <2>4. LimitReached
      <3> SUFFICES ASSUME ~LimitReached PROVE FALSE
        OBVIOUS
      <3>1. PICK G : History(G, trace)
        BY <1>2 DEF HistoryInv
      <3>2. range \in RangeType /\ nb_spans < range.limit /\ stack \in Seq(NodeType)
        <4>1. nb_spans \in Nat /\ range.limit \in Int /\ range \in RangeType /\ stack \in Seq(NodeType)
          BY <1>2, RangeFields DEF BuilderType
        <4> QED BY <4>1 DEF LimitReached
      <3>3. InSync(G, trace, range, Parsed(trace, range, lo, n), stack)
        BY <1>4, <3>1, <3>2 DEF TreeAt
      <3>4. UpTo(Parsed(trace, range, lo, n), n)
        BY <1>2, <1>4, <1>5, <2>1, <3>2, ParsedUpTo DEF N
      <3> QED BY <1>2, <1>5, <2>1, <3>1, <3>2, <3>3, <3>4, SyncMatches DEF N
    <2>5. Mismatched'
      BY <2>1, <2>3, <2>4 DEF Mismatched, LimitReached
    <2>6. Groups'
      BY <1>0, <2>1, <2>3, GroupsStay
    <2>7. ParseInv'
      BY <2>3 DEF ParseInv
    <2> QED BY <1>1, <1>10, <2>2, <2>5, <2>6, <2>7 DEF IInv, Typed
  <1> QED BY <1>7, <1>12, <1>13, <1>14

(* Every step keeps the invariant. *)
LEMMA NextIInv == IInv /\ [Next]_vars => IInv'
  <1> SUFFICES ASSUME IInv, [Next]_vars PROVE IInv'
    OBVIOUS
  <1>0. RecorderInv
    BY DEF IInv
  <1>1. ASSUME NEW h \in Scopes, BeginSpan(h) PROVE IInv'
    <2>1. RecorderInv'
      BY <1>0, <1>1, BeginSpanKeeps
    <2>2. qpc = "idle" /\ UNCHANGED <<request, qpc, pending, result, builder>>
      BY <1>1 DEF BeginSpan, Record
    <2> QED BY <2>1, <2>2, IdleKeeps DEF IInv
  <1>2. CASE EndSpan
    <2>1. RecorderInv'
      BY <1>0, <1>2, EndSpanKeeps
    <2>2. qpc = "idle" /\ UNCHANGED <<request, qpc, pending, result, builder>>
      BY <1>2 DEF EndSpan, Record
    <2> QED BY <2>1, <2>2, IdleKeeps DEF IInv
  <1>3. ASSUME NEW lag \in Lags, CutBlock(lag) PROVE IInv'
    <2>1. RecorderInv'
      BY <1>0, <1>3, CutBlockKeeps
    <2>2. qpc = "idle" /\ UNCHANGED <<request, qpc, pending, result, builder>>
      BY <1>3 DEF CutBlock
    <2> QED BY <2>1, <2>2, IdleKeeps DEF IInv
  <1>4. ASSUME NEW begin \in Times, NEW end \in Times, NEW limit \in Limits, StartQuery(begin, end, limit)
        PROVE  IInv'
    BY <1>4, StartQueryKeeps
  <1>5. CASE GroupBlock
    BY <1>5, GroupBlockKeeps
  <1>6. CASE GapBlock
    BY <1>6, GapBlockKeeps
  <1>7. CASE LastRun
    BY <1>7, LastRunKeeps
  <1>8. CASE NoRunLeft
    BY <1>8, NoRunLeftKeeps
  <1>9. CASE ParseEvent
    BY <1>9, ParseEventKeeps
  <1>10. CASE NextBlock
    BY <1>10, NextBlockKeeps
  <1>11. CASE FinishCallTree
    BY <1>11, FinishKeeps
  <1>12. CASE UNCHANGED vars
    <2>1. /\ UNCHANGED <<recorder, request, qpc, pending, result, builder>>
          /\ UNCHANGED <<query, todo, blocks_to_process, last_end, rows, used>>
          /\ UNCHANGED <<range, nb_spans, stack, cont, mismatch, trace, lake>>
      BY <1>12 DEF vars, request, result, builder, recorder
    <2>2. RecorderInv'
      BY <1>0, <2>1, QueryKeepsRecorder
    <2>3. Typed'
      BY <2>1 DEF IInv, Typed, QueryTypes, BuilderType
    <2>4. Groups'
      <3>1. Selection' = Selection
        BY <2>1, SameSelection
      <3>2. Run(blocks_to_process)' <=> Run(blocks_to_process)
        BY <2>1 DEF Run
      <3> QED BY <2>1, <3>1, <3>2 DEF IInv, Groups
    <2>5. Mismatched'
      BY <2>1 DEF IInv, Mismatched, LimitReached
    <2>6. ParseInv'
      <3>1. UNCHANGED <<FirstOf(blocks_to_process), LastOf(blocks_to_process)>>
        BY <2>1 DEF FirstOf, LastOf
      <3> QED BY <2>1, <3>1 DEF IInv, ParseInv
    <2> QED BY <2>2, <2>3, <2>4, <2>5, <2>6 DEF IInv
  <1> QED BY <1>1, <1>2, <1>3, <1>4, <1>5, <1>6, <1>7, <1>8, <1>9, <1>10, <1>11, <1>12 DEF Next

(* A query that is done has all its blocks accounted for. *)
LEMMA IInvOnlyAfterGaps == IInv => OnlyAfterGaps
  <1> SUFFICES ASSUME IInv PROVE OnlyAfterGaps
    OBVIOUS
  <1> DEFINE sel == find_stream_blocks_in_range(query.begin, query.end)
  <1>0. RecorderType
    BY DEF IInv, RecorderInv
  <1>1. sel = Selection /\ Selection \in Seq(BlockType) /\ Len(Selection) \in Nat
    BY <1>0, SelectionIs
  <1>2. mismatch => LimitReached
    BY DEF IInv, Mismatched
  <1> HIDE DEF sel
  <1>3. ASSUME qpc = "done", Len(rows) < query.limit, ~mismatch, NEW i \in DOMAIN sel
        PROVE  sel[i] \in used \/ (i > 1 /\ sel[i - 1].end_ticks # sel[i].begin_ticks)
    <2>1. todo = <<>> /\ blocks_to_process = <<>>
          /\ Grouped(Selection, todo, blocks_to_process, last_end, used, qpc)
      BY <1>3 DEF IInv, Groups
    <2>2. PICK p \in 0 .. Len(sel) : LookedAt(sel, p, todo, blocks_to_process, last_end, used, qpc)
      BY <1>1, <2>1 DEF Grouped
    <2>3. Len(todo) = 0 /\ Len(blocks_to_process) = 0
      BY <2>1
    <2>4. 0 = Len(sel) - p /\ \A x \in 1 .. p : Handled(sel, x, used, blocks_to_process)
      BY <2>2, <2>3 DEF LookedAt
    <2>5. p = Len(sel) /\ DOMAIN sel = 1 .. Len(sel)
      BY <1>1, <2>4, LenProperties
    <2>6. Handled(sel, i, used, blocks_to_process)
      BY <2>4, <2>5
    <2> QED BY <2>3, <2>6 DEF Handled
  <1> QED BY <1>2, <1>3 DEF OnlyAfterGaps, sel

(* The rows of a nested stack are nested. *)
LEMMA IInvSpansNested == IInv => SpansNested
  <1> SUFFICES ASSUME IInv, TreeDone
               PROVE  LET tree == append_call_tree(<<>>) IN
                      \A i, j \in DOMAIN tree :
                        i < j => IF Below(tree, i, j)
                                 THEN tree[i].begin <= tree[j].begin /\ tree[j].end <= tree[i].end
                                 ELSE tree[i].end <= tree[j].begin
    BY DEF SpansNested
  <1> DEFINE tree == append_call_tree(<<>>)
  <1>1. CASE stack = <<>>
    <2>1. tree = <<>>
      BY <1>1 DEF append_call_tree
    <2> QED BY <2>1
  <1>2. CASE stack # <<>>
    <2>1. PICK now : StackOk(stack, range, now)
      BY DEF IInv, ParseInv, TreeAt, TreeDone
    <2>2. range \in RangeType
      BY DEF IInv, Typed, BuilderType
    <2> DEFINE nil == <<>>
    <2>3. nil \in Seq(RowType)
      OBVIOUS
    <2>4. tree \in Seq(RowType) /\ Nested(tree)
      <3> HIDE DEF nil
      <3> QED BY <1>2, <2>1, <2>2, <2>3, TreeRows
    <2>5. DOMAIN tree = 1 .. Len(tree)
      BY <2>4, LenProperties
    <2> HIDE DEF tree
    <2> QED BY <2>4, <2>5 DEF Nested, PairNested, tree
  <1> QED BY <1>1, <1>2

-----------------------------------------------------------------------------
(***************************************************************************)
(* ExpectedSpans and the history.                                          *)
(***************************************************************************)

(* The spans of the events from c to e: those that end there, those that   *)
(* do not, and those that began before.                                    *)
Matched(x, c, e) ==
    \E i, j \in c .. e : Ends(i, j) /\ x = SpanOf(trace, i, T(trace, i), T(trace, j))
StillOpen(x, c, e) ==
    \E i \in c .. e : /\ Kind(i) = "begin" /\ ~\E j \in c .. e : Ends(i, j)
                      /\ x = SpanOf(trace, i, T(trace, i), range.end)
FromBefore(x, c, e) ==
    \E j \in c .. e : /\ Kind(j) = "end" /\ ~\E i \in c .. e : Ends(i, j)
                      /\ x = SpanOf(trace, j, range.begin, T(trace, j))

(* A span ends once. *)
LEMMA EndsOnce ==
  ASSUME NEW i \in Nat, NEW j \in Nat, NEW k \in Nat, Ends(i, j), Ends(i, k)
  PROVE  j = k
  <1>1. ASSUME NEW a \in Nat, NEW b \in Nat, Ends(i, a), Ends(i, b), a < b PROVE FALSE
    <2>1. a \in i .. b - 1
      BY <1>1 DEF Ends
    <2>2. Balance(i, a) > 0 /\ Balance(i, a) = 0
      BY <1>1, <2>1 DEF Ends
    <2> QED BY <2>2
  <1> QED BY <1>1

(* The span that an end closes. *)
LEMMA TopEnds ==
  ASSUME NEW G, trace \in Seq(EventType), History(G, trace), NEW c \in Nat \ {0},
         NEW e \in Nat, e <= Len(trace), NEW j \in c .. e, Kind(j) = "end"
  PROVE  /\ Top(G, j - 1) \in Nat
         /\ Top(G, j - 1) >= c => Top(G, j - 1) \in c .. e /\ Ends(Top(G, j - 1), j)
         /\ \A i \in c .. e : Ends(i, j) => Top(G, j - 1) = i
  <1> DEFINE i == Top(G, j - 1)
  <1>1. Len(trace) \in Nat /\ j \in Nat /\ j \in 1 .. Len(trace) /\ j - 1 \in 0 .. Len(trace)
    BY LenProperties
  <1>2. Stepped(G, trace, j - 1, j) /\ OpenEntries(G, trace, j - 1)
    BY <1>1, HistoryStep, HistoryEntries
  <1>3. Len(G[j - 1]) \in Nat /\ Len(G[j - 1]) # 0 /\ i = G[j - 1][Len(G[j - 1])]
    BY <1>2 DEF Stepped, Kind, Top
  <1>4. Len(G[j - 1]) \in 1 .. Len(G[j - 1])
    BY <1>3
  <1>5. i \in 0 .. j - 1
    BY <1>2, <1>3, <1>4 DEF OpenEntries
  <1> HIDE DEF i
  <1>6. i \in Nat
    BY <1>1, <1>5
  <1>7. ASSUME i >= c PROVE i \in c .. e /\ Ends(i, j)
    <2>1. i \in c .. e /\ i \in 1 .. Len(trace)
      BY <1>1, <1>5, <1>7
    <2> QED BY <1>1, <1>3, <2>1, EndsIs
  <1>8. ASSUME NEW k \in c .. e, Ends(k, j) PROVE i = k
    <2>1. k \in 1 .. Len(trace)
      BY <1>1
    <2> QED BY <1>1, <1>3, <1>8, <2>1, EndsIs
  <1> QED BY <1>6, <1>7, <1>8 DEF i

(* The spans that the parsed ends close are those of ExpectedSpans. *)
LEMMA ClosedAre ==
  ASSUME NEW G, trace \in Seq(EventType), History(G, trace), NEW c \in Nat \ {0},
         NEW e \in Nat, e <= Len(trace), NEW x
  PROVE  x \in ClosedSpans(G, trace, range, c, e) <=> Matched(x, c, e) \/ FromBefore(x, c, e)
  <1>1. ASSUME x \in ClosedSpans(G, trace, range, c, e) PROVE Matched(x, c, e) \/ FromBefore(x, c, e)
    <2>1. PICK j \in c .. e : trace[j].kind = "end" /\ x = ClosedBy(G, trace, range, c, j)
      BY <1>1 DEF ClosedSpans
    <2>2. Kind(j) = "end"
      BY <2>1 DEF Kind
    <2>3. /\ Top(G, j - 1) \in Nat
          /\ Top(G, j - 1) >= c => Top(G, j - 1) \in c .. e /\ Ends(Top(G, j - 1), j)
          /\ \A i \in c .. e : Ends(i, j) => Top(G, j - 1) = i
      BY <2>2, TopEnds
    <2> DEFINE t == Top(G, j - 1)
    <2>4. CASE t >= c
      <3>1. x = SpanOf(trace, t, T(trace, t), T(trace, j)) /\ t \in c .. e /\ Ends(t, j)
        BY <2>1, <2>3, <2>4 DEF ClosedBy
      <3> HIDE DEF t
      <3> QED BY <3>1 DEF Matched
    <2>5. CASE ~(t >= c)
      <3>1. x = SpanOf(trace, j, range.begin, T(trace, j))
        BY <2>1, <2>5 DEF ClosedBy
      <3>2. ~\E i \in c .. e : Ends(i, j)
        <4> HIDE DEF t
        <4>1. ASSUME NEW i \in c .. e PROVE ~(t = i)
          BY <2>5
        <4> QED BY <2>3, <4>1 DEF t
      <3> QED BY <2>2, <3>1, <3>2 DEF FromBefore
    <2> QED BY <2>4, <2>5
  <1>2. ASSUME Matched(x, c, e) PROVE x \in ClosedSpans(G, trace, range, c, e)
    <2>1. PICK i \in c .. e, j \in c .. e : Ends(i, j) /\ x = SpanOf(trace, i, T(trace, i), T(trace, j))
      BY <1>2 DEF Matched
    <2>2. Kind(j) = "end" /\ trace[j].kind = "end"
      BY <2>1 DEF Ends, Kind
    <2>3. Top(G, j - 1) = i
      BY <2>1, <2>2, TopEnds
    <2>4. i >= c
      OBVIOUS
    <2>5. x = ClosedBy(G, trace, range, c, j)
      BY <2>1, <2>3, <2>4 DEF ClosedBy
    <2> QED BY <2>2, <2>5 DEF ClosedSpans
  <1>3. ASSUME FromBefore(x, c, e) PROVE x \in ClosedSpans(G, trace, range, c, e)
    <2>1. PICK j \in c .. e : /\ Kind(j) = "end" /\ ~\E i \in c .. e : Ends(i, j)
                              /\ x = SpanOf(trace, j, range.begin, T(trace, j))
      BY <1>3 DEF FromBefore
    <2>2. ~(Top(G, j - 1) >= c)
      BY <2>1, TopEnds
    <2>3. x = ClosedBy(G, trace, range, c, j) /\ trace[j].kind = "end"
      BY <2>1, <2>2 DEF ClosedBy, Kind
    <2> QED BY <2>3 DEF ClosedSpans
  <1> QED BY <1>1, <1>2, <1>3

(* The nodes left on the stack. *)
LEMMA OpenAre ==
  ASSUME NEW G, trace \in Seq(EventType), History(G, trace), NEW c \in Nat \ {0},
         NEW e \in Nat, c <= e, e <= Len(trace), NEW r, Sync(G, trace, range, c, e, r, stack), NEW x
  PROVE  (\E y \in r + 1 .. Len(stack) : x = Strip(stack[y])) <=> StillOpen(x, c, e)
  <1> DEFINE K == Len(G[e])
             s == Len(stack)
  <1>1. /\ s \in Nat \ {0} /\ r \in {0, 1} /\ s - r <= K
        /\ \A y \in r + 1 .. s : /\ G[e][K - s + y] \in c .. e
                                 /\ OpenNode(stack[y], trace, range, G[e][K - s + y])
        /\ \A y \in 1 .. K - (s - r) : G[e][y] < c
    BY DEF Sync
  <1>2. Len(trace) \in Nat /\ e \in 0 .. Len(trace)
    BY LenProperties
  <1>3. OpenEntries(G, trace, e)
    BY <1>2, HistoryEntries
  <1>4. K \in Nat
    BY <1>2, LenProperties DEF History
  <1> HIDE DEF K, s
  <1>5. ASSUME NEW i \in c .. e, Kind(i) = "begin"
        PROVE  (\E y \in 1 .. K : G[e][y] = i) <=> ~\E j \in c .. e : Ends(i, j)
    <2>1. i \in 1 .. Len(trace) /\ e \in i .. Len(trace)
      BY <1>2
    <2>2. (\E y \in 1 .. K : G[e][y] = i) <=> ~\E j \in i .. e : Ends(i, j)
      BY <1>5, <2>1, OpenIs DEF K
    <2>3. \A j \in c .. e : Ends(i, j) => j \in i .. e
      BY DEF Ends
    <2>4. \A j \in i .. e : j \in c .. e
      OBVIOUS
    <2> QED BY <2>2, <2>3, <2>4
  <1>6. ASSUME NEW y \in r + 1 .. s, x = Strip(stack[y]) PROVE StillOpen(x, c, e)
    <2> DEFINE i == G[e][K - s + y]
    <2>1. i \in c .. e /\ OpenNode(stack[y], trace, range, i) /\ K - s + y \in 1 .. K
      BY <1>1, <1>4
    <2>2. Kind(i) = "begin"
      <3>1. i # 0
        BY <2>1
      <3> QED BY <1>3, <2>1, <3>1 DEF OpenEntries, Kind, K
    <2>3. ~\E j \in c .. e : Ends(i, j)
      BY <1>5, <2>1, <2>2
    <2> HIDE DEF i
    <2>4. x = SpanOf(trace, i, T(trace, i), range.end)
      BY <1>6, <2>1 DEF OpenNode, Strip, SpanOf
    <2> QED BY <2>1, <2>2, <2>3, <2>4 DEF StillOpen
  <1>7. ASSUME StillOpen(x, c, e) PROVE \E y \in r + 1 .. s : x = Strip(stack[y])
    <2>1. PICK i \in c .. e : /\ Kind(i) = "begin" /\ ~\E j \in c .. e : Ends(i, j)
                              /\ x = SpanOf(trace, i, T(trace, i), range.end)
      BY <1>7 DEF StillOpen
    <2>2. PICK y \in 1 .. K : G[e][y] = i
      BY <1>5, <2>1
    <2>3. ~(G[e][y] < c)
      BY <2>2
    <2>4. ~(y \in 1 .. K - (s - r))
      BY <1>1, <2>3
    <2> DEFINE z == y - K + s
    <2>5. z \in r + 1 .. s /\ K - s + z = y
      BY <1>1, <1>4, <2>4
    <2> HIDE DEF z
    <2>6. OpenNode(stack[z], trace, range, i)
      BY <1>1, <2>2, <2>5
    <2>7. x = Strip(stack[z])
      BY <2>1, <2>6 DEF OpenNode, Strip, SpanOf
    <2> QED BY <2>5, <2>7
  <1> QED BY <1>6, <1>7 DEF s

(* What the property asks for. *)
LEMMA ExpectedAre ==
  ASSUME NEW c \in Nat \ {0}, NEW e \in Nat, Covered = c .. e, NEW x
  PROVE  x \in ExpectedSpans <=> Matched(x, c, e) \/ StillOpen(x, c, e) \/ FromBefore(x, c, e)
  <1> DEFINE EndOf(i) == {j \in c .. e : Ends(i, j)}
             Begun == {k \in c .. e : Kind(k) = "begin"}
             Early == {k \in c .. e : Kind(k) = "end" /\ ~\E i \in c .. e : Ends(i, k)}
             A(i) == Span(i, Time(i), IF EndOf(i) = {} THEN range.end
                                      ELSE Time(CHOOSE j \in EndOf(i) : TRUE))
             B(j) == Span(j, range.begin, Time(j))
  <1>1. x \in ExpectedSpans <=> (\E i \in Begun : x = A(i)) \/ (\E j \in Early : x = B(j))
    BY DEF ExpectedSpans
  <1>2. \A k, b, f : Span(k, b, f) = SpanOf(trace, k, b, f)
    BY DEF Span, SpanOf
  <1>3. \A k : Time(k) = T(trace, k)
    BY DEF Time, T
  <1>4. (\E j \in Early : x = B(j)) <=> FromBefore(x, c, e)
    BY <1>2, <1>3 DEF FromBefore
  <1>5. ASSUME NEW i \in Begun, EndOf(i) = {}
        PROVE  A(i) = SpanOf(trace, i, T(trace, i), range.end)
    BY <1>2, <1>3, <1>5
  <1>6. ASSUME NEW i \in Begun, NEW j \in EndOf(i)
        PROVE  A(i) = SpanOf(trace, i, T(trace, i), T(trace, j))
    <2> DEFINE k == CHOOSE l \in EndOf(i) : TRUE
    <2>1. k \in EndOf(i)
      OBVIOUS
    <2>2. i \in Nat /\ j \in Nat /\ k \in Nat /\ Ends(i, j) /\ Ends(i, k)
      BY <2>1
    <2>3. k = j
      <3> HIDE DEF k
      <3> QED BY <2>2, EndsOnce
    <2>4. EndOf(i) # {} /\ (CHOOSE l \in EndOf(i) : TRUE) = j
      BY <2>1, <2>3
    <2>5. A(i) = Span(i, Time(i), Time(j))
      <3> HIDE DEF EndOf
      <3> QED BY <2>4
    <2> HIDE DEF A
    <2> QED BY <1>2, <1>3, <2>5
  <1>7. ASSUME NEW i \in Begun, x = A(i) PROVE Matched(x, c, e) \/ StillOpen(x, c, e)
    <2>1. CASE EndOf(i) = {}
      <3>1. x = SpanOf(trace, i, T(trace, i), range.end)
        <4> HIDE DEF A, EndOf, Begun
        <4> QED BY <1>5, <1>7, <2>1
      <3>2. ~\E j \in c .. e : Ends(i, j)
        BY <2>1
      <3> QED BY <3>1, <3>2 DEF StillOpen
    <2>2. CASE EndOf(i) # {}
      <3>1. PICK j \in EndOf(i) : TRUE
        BY <2>2
      <3>2. x = SpanOf(trace, i, T(trace, i), T(trace, j))
        <4> HIDE DEF A, EndOf, Begun
        <4> QED BY <1>6, <1>7, <3>1
      <3>3. j \in c .. e /\ Ends(i, j) /\ i \in c .. e
        BY <3>1
      <3> QED BY <3>2, <3>3 DEF Matched
    <2> QED BY <2>1, <2>2
  <1>8. ASSUME Matched(x, c, e) PROVE \E i \in Begun : x = A(i)
    <2>1. PICK i \in c .. e, j \in c .. e : Ends(i, j) /\ x = SpanOf(trace, i, T(trace, i), T(trace, j))
      BY <1>8 DEF Matched
    <2>2. i \in Begun /\ j \in EndOf(i)
      BY <2>1 DEF Ends
    <2> HIDE DEF A, EndOf, Begun
    <2> QED BY <1>6, <2>1, <2>2
  <1>9. ASSUME StillOpen(x, c, e) PROVE \E i \in Begun : x = A(i)
    <2>1. PICK i \in c .. e : /\ Kind(i) = "begin" /\ ~\E j \in c .. e : Ends(i, j)
                              /\ x = SpanOf(trace, i, T(trace, i), range.end)
      BY <1>9 DEF StillOpen
    <2>2. i \in Begun /\ EndOf(i) = {}
      BY <2>1
    <2> HIDE DEF A, EndOf, Begun
    <2> QED BY <1>5, <2>1, <2>2
  <1> HIDE DEF A, B, EndOf, Begun, Early
  <1> QED BY <1>1, <1>4, <1>7, <1>8, <1>9

(* What the rows say, but for the thread's own. *)
LEMMA TreeSpansAre ==
  ASSUME append_call_tree(<<>>) \in Seq(RowType), NEW x
  PROVE  x \in TreeSpans <=> x \in Spans(append_call_tree(<<>>)) /\ x.id # -1
  <1> DEFINE tree == append_call_tree(<<>>)
  <1>1. DOMAIN tree = 1 .. Len(tree)
    BY LenProperties
  <1>2. x \in TreeSpans <=> \E r \in ToSet(tree) : r.id # -1 /\ x = Strip(r)
    BY DEF TreeSpans, Strip
  <1>3. \A r : Strip(r).id = r.id
    BY DEF Strip
  <1> HIDE DEF tree
  <1>4. \A r : r \in ToSet(tree) <=> \E y \in 1 .. Len(tree) : r = tree[y]
    BY <1>1 DEF ToSet
  <1>5. x \in Spans(tree) <=> \E y \in 1 .. Len(tree) : x = Strip(tree[y])
    BY DEF Spans
  <1> QED BY <1>2, <1>3, <1>4, <1>5 DEF tree

(* The spans have ids. *)
LEMMA SpansHaveIds ==
  ASSUME NEW c \in Nat \ {0}, NEW e \in Nat, NEW x,
         Matched(x, c, e) \/ StillOpen(x, c, e) \/ FromBefore(x, c, e)
  PROVE  x.id # -1
  <1>1. \A k \in c .. e : k - 1 # -1
    OBVIOUS
  <1>2. \A k, b, f : SpanOf(trace, k, b, f).id = k - 1
    BY DEF SpanOf
  <1>3. \E k \in c .. e : \E b, f : x = SpanOf(trace, k, b, f)
    BY DEF Matched, StillOpen, FromBefore
  <1> QED BY <1>1, <1>2, <1>3

(* A stack in step with the history finishes as the spans of the trace. *)
LEMMA IInvTreeMatchesTrace == IInv => TreeMatchesTrace
  <1> SUFFICES ASSUME IInv, TreeDone, nb_spans < range.limit PROVE TreeSpans = ExpectedSpans
    BY DEF TreeMatchesTrace
  <1> DEFINE tree == append_call_tree(<<>>)
             lo == FirstOf(blocks_to_process)
             hi == LastOf(blocks_to_process)
             nil == <<>>
  <1>1. /\ RecorderType /\ LakeInv /\ HistoryInv /\ BuilderType /\ trace \in Seq(EventType)
        /\ range \in RangeType /\ stack \in Seq(NodeType) /\ qpc = "parse" /\ pending = nil
    BY DEF IInv, RecorderInv, RecorderType, Typed, BuilderType, TreeDone
  <1>2. PICK n \in Nat \ {0} : /\ lo \in Nat \ {0} /\ lo <= n /\ Pending(pending, n, hi, Len(trace))
                               /\ TreeAt(trace, range, nb_spans, stack, lo, n)
    BY <1>1 DEF IInv, ParseInv
  <1>3. n = hi + 1 /\ hi \in Nat
    <2> HIDE DEF hi
    <2> QED BY <1>1, <1>2, PendingDone
  <1>4. Parsed(trace, range, lo, n) = Covered
    <2>1. lo = blocks_to_process[1].object_offset + 1
          /\ hi = Last(blocks_to_process).object_offset + Last(blocks_to_process).nb_objects
      BY DEF FirstOf, LastOf
    <2>2. \A k : InRange(Time(k)) <=> In(range, T(trace, k))
      BY DEF InRange, Time, In, T
    <2>3. Covered = {k \in lo .. hi : InRange(Time(k))}
      BY <2>1 DEF Covered
    <2> HIDE DEF lo, hi
    <2>4. n - 1 = hi
      BY <1>3
    <2> QED BY <2>2, <2>3, <2>4 DEF Parsed
  <1>5. PICK G : History(G, trace)
    BY <1>1 DEF HistoryInv
  <1>6. InSync(G, trace, range, Covered, stack)
    BY <1>2, <1>4, <1>5 DEF TreeAt
  <1>7. CASE Covered = {}
    <2>1. stack = nil
      BY <1>6, <1>7 DEF InSync
    <2>2. tree = nil
      BY <2>1 DEF append_call_tree
    <2>3. TreeSpans = {}
      BY <2>2 DEF TreeSpans, ToSet
    <2>4. ExpectedSpans = {}
      BY <1>7 DEF ExpectedSpans
    <2> QED BY <2>3, <2>4
  <1>8. CASE Covered # {}
    <2>1. PICK c \in Nat, e \in Nat, r \in {0, 1} :
             c <= e /\ Covered = c .. e /\ Sync(G, trace, range, c, e, r, stack)
      BY <1>6, <1>8 DEF InSync
    <2>2. c \in Nat \ {0} /\ e <= Len(trace)
      <3>1. \A k \in Covered : k \in lo .. hi
        <4>1. n - 1 = hi
          BY <1>3
        <4> QED BY <1>4, <4>1 DEF Parsed
      <3>2. c \in lo .. hi /\ e \in lo .. hi
        BY <2>1, <3>1
      <3>3. hi <= Len(trace) /\ Len(trace) \in Nat
        BY <1>1, HiFits, EventFields DEF IInv, Groups, Typed, QueryTypes
      <3> HIDE DEF lo, hi
      <3> QED BY <1>2, <1>3, <2>1, <3>2, <3>3
    <2>3. stack # <<>>
      <3>1. Len(stack) # 0
        BY <2>1 DEF Sync
      <3> QED BY <3>1
    <2>4. PICK now : StackOk(stack, range, now)
      BY <1>2 DEF TreeAt
    <2>5. /\ tree \in Seq(RowType)
          /\ Spans(tree) = Closed(stack) \cup {Strip(stack[y]) : y \in 1 .. Len(stack)}
      <3>1. nil \in Seq(RowType)
        OBVIOUS
      <3> HIDE DEF nil
      <3> QED BY <1>1, <2>3, <2>4, <3>1, TreeRows
    <2>6. /\ Len(stack) \in Nat \ {0} /\ (r = 1 => stack[1].id = -1)
          /\ Closed(stack) = ClosedSpans(G, trace, range, c, e)
      BY <2>1 DEF Sync, RootNode
    <2>7. ASSUME NEW x PROVE x \in TreeSpans <=> x \in ExpectedSpans
      <3> DEFINE M == Matched(x, c, e)
                 O == StillOpen(x, c, e)
                 F == FromBefore(x, c, e)
      <3>1. x \in TreeSpans <=> x \in Spans(tree) /\ x.id # -1
        BY <2>5, TreeSpansAre
      <3>2. x \in ClosedSpans(G, trace, range, c, e) <=> M \/ F
        BY <1>1, <1>5, <2>1, <2>2, ClosedAre
      <3>3. (\E y \in r + 1 .. Len(stack) : x = Strip(stack[y])) <=> O
        BY <1>1, <1>5, <2>1, <2>2, OpenAre
      <3>4. x \in ExpectedSpans <=> M \/ O \/ F
        BY <2>1, <2>2, ExpectedAre
      <3>5. M \/ O \/ F => x.id # -1
        BY <2>2, SpansHaveIds
      <3> HIDE DEF M, O, F
      <3>6. ASSUME NEW y \in 1 .. Len(stack), x = Strip(stack[y]), x.id # -1
            PROVE  \E z \in r + 1 .. Len(stack) : x = Strip(stack[z])
        <4>1. Strip(stack[y]).id = stack[y].id
          BY DEF Strip
        <4>2. ~(r = 1 /\ y = 1)
          BY <2>6, <3>6, <4>1
        <4>3. y \in r + 1 .. Len(stack)
          BY <2>6, <4>2
        <4> QED BY <3>6, <4>3
      <3>7. ASSUME NEW y \in r + 1 .. Len(stack) PROVE y \in 1 .. Len(stack)
        BY <2>6
      <3>8. x \in Spans(tree) <=> x \in ClosedSpans(G, trace, range, c, e)
                                    \/ \E y \in 1 .. Len(stack) : x = Strip(stack[y])
        BY <2>5, <2>6
      <3> QED BY <3>1, <3>2, <3>3, <3>4, <3>5, <3>6, <3>7, <3>8
    <2> QED BY <2>7
  <1> QED BY <1>7, <1>8

-----------------------------------------------------------------------------
(***************************************************************************)
(* The theorems                                                            *)
(***************************************************************************)

(* The invariant holds throughout: the recorded blocks and events are in   *)
(* order, each selected block is accounted for, and the stack of the tree  *)
(* being built fits the history of the open spans.                         *)
THEOREM SpecIInv == Spec => []IInv
  BY InitIInv, NextIInv, PTL DEF Spec

(* A query whose limit is not reached never fails with "top scope mismatch *)
(* parsing thread block", and leaves out a selected block only if the      *)
(* block does not begin where the one before it ended: for any scopes,     *)
(* blocks lost, lag of the clock, range, limit and whole number of ticks   *)
(* per nanosecond.                                                         *)
THEOREM OnlyAfterGapsHolds == Spec => []OnlyAfterGaps
  BY SpecIInv, IInvOnlyAfterGaps, PTL

(* The rows that a query appends for a run of blocks are nested: a span    *)
(* lies within the ones that call it, and siblings do not overlap, also in *)
(* a tree that the limit has cut short.                                    *)
THEOREM SpansNestedHolds == Spec => []SpansNested
  BY SpecIInv, IInvSpansNested, PTL

(* The call tree that make_call_tree builds from a run of blocks, when the *)
(* limit did not cut it short, holds the spans of its range and no others: *)
(* one for each begin in it, up to the end that the trace has for it or    *)
(* the end of the range, and one for each end whose begin lies before: for *)
(* any trace, blocks, range and whole number of ticks per nanosecond.      *)
THEOREM TreeMatchesTraceHolds == Spec => []TreeMatchesTrace
  BY SpecIInv, IInvTreeMatchesTrace, PTL
=============================================================================
