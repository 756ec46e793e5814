--------------------------- MODULE UnrealSinkProofs ---------------------------
(***************************************************************************)
(* Proofs of the invariants of UnrealSink, and that it implements          *)
(* SinkContract, for any set of threads and any bounds.                    *)
(*                                                                         *)
(* The state of a thread is a stack of steps, so that every invariant is   *)
(* about where steps are on a stack.  A step is located by its depth, from *)
(* the bottom, which does not change while it waits for what it called.    *)
(* The lemmas ...Effect turn each action into one list of steps, pushed in *)
(* the place of the top of one stack; Replaced says what that makes of     *)
(* each depth; NextKind and Flow sort the actions into a few kinds, by     *)
(* what they do to the stacks and to the messages that wait.               *)
(*                                                                         *)
(* The inductive invariant has a part for each property:                   *)
(*   StackInv     which steps are where, and what is below a message       *)
(*   ShutdownInv  what a shutdown waits for is still on its way            *)
(*   MutexInv     a mutex is held from its lock to its one cut; what nests *)
(*                in it asks for no other mutex                            *)
(*   TalkInv, AnnounceInv   who has, announces and cuts a thread's stream  *)
(*   BlockInv     the places of each block                                 *)
(*   WakeInv, CountInv      the event and the counter follow the queue     *)
(***************************************************************************)
EXTENDS UnrealSink, SequenceTheorems, FiniteSetTheorems, TLAPS

(***************************************************************************)
(* Stacks.  A step has a depth, counted from the bottom of its stack: it   *)
(* stays the same whatever is pushed or done above it.                     *)
(***************************************************************************)

Frame(q, d) == q[Len(q) + 1 - d]

(* A name for the length that the provers need not expand. *)
Height(q) == Len(q)

LEMMA HeightIs == \A q : Height(q) = Len(q)
  BY DEF Height

(* The stack r has the b lowest steps of q and, from there up, those of up. *)
Grown(q, r, b, up) ==
    /\ Len(up) \in Nat
    /\ Len(r) = b + Len(up)
    /\ \A d \in 1 .. b : Frame(r, d) = Frame(q, d)
    /\ \A d \in b + 1 .. Len(r) : Frame(r, d) = up[d - b]

(* up is steps from the bottom up. *)
Turned(steps, up) ==
    /\ Len(up) = Len(steps)
    /\ \A k \in 1 .. Len(steps) : up[k] = steps[Len(steps) + 1 - k]

LEMMA CallGrows ==
  ASSUME NEW S, NEW q \in Seq(S), q # <<>>, NEW steps \in Seq(S), NEW up, Turned(steps, up)
  PROVE  /\ steps \o Tail(q) \in Seq(S)
         /\ Grown(q, steps \o Tail(q), Len(q) - 1, up)
  <1> DEFINE r == steps \o Tail(q)
  <1>1. /\ Tail(q) \in Seq(S) /\ Len(Tail(q)) = Len(q) - 1 /\ Len(q) \in Nat \ {0}
        /\ \A i \in 1 .. Len(q) - 1 : Tail(q)[i] = q[i + 1]
    BY HeadTailProperties, LenProperties
  <1>2. /\ r \in Seq(S) /\ Len(r) = Len(steps) + Len(q) - 1 /\ Len(steps) \in Nat
        /\ \A i \in 1 .. Len(r) : r[i] = IF i <= Len(steps) THEN steps[i]
                                         ELSE Tail(q)[i - Len(steps)]
    BY <1>1, ConcatProperties, LenProperties
  <1> HIDE DEF r
  <1>3. ASSUME NEW d \in 1 .. Len(q) - 1 PROVE Frame(r, d) = Frame(q, d)
    <2>1. /\ Len(r) + 1 - d \in 1 .. Len(r) /\ ~(Len(r) + 1 - d <= Len(steps))
          /\ Len(r) + 1 - d - Len(steps) = Len(q) - d
          /\ Len(q) - d \in 1 .. Len(q) - 1
          /\ Len(q) - d + 1 = Len(q) + 1 - d
      BY <1>1, <1>2
    <2> QED BY <1>1, <1>2, <2>1 DEF Frame
  <1>4. ASSUME NEW d \in Len(q) .. Len(r) PROVE Frame(r, d) = up[d - (Len(q) - 1)]
    <2>1. /\ d - (Len(q) - 1) \in 1 .. Len(steps)
          /\ Len(steps) + 1 - (d - (Len(q) - 1)) = Len(r) + 1 - d
          /\ Len(r) + 1 - d \in 1 .. Len(r) /\ Len(r) + 1 - d <= Len(steps)
      BY <1>1, <1>2
    <2> QED BY <1>2, <2>1 DEF Frame, Turned
  <1>5. Len(r) = Len(q) - 1 + Len(up) /\ Len(q) - 1 + 1 = Len(q) /\ Len(up) \in Nat
    BY <1>1, <1>2 DEF Turned
  <1> QED BY <1>2, <1>3, <1>4, <1>5 DEF Grown, r

LEMMA StartGrows ==
  ASSUME NEW S, NEW steps \in Seq(S), NEW up, NEW q, Turned(steps, up)
  PROVE  Grown(q, steps, 0, up)
  <1>1. Len(steps) \in Nat
    BY LenProperties
  <1>2. ASSUME NEW d \in 1 .. Len(steps) PROVE Frame(steps, d) = up[d - 0]
    BY <1>1 DEF Frame, Turned
  <1> QED BY <1>1, <1>2 DEF Grown, Turned

Joined(S, p, q, s) ==
    /\ p \in Seq(S) /\ q \in Seq(S) /\ s \in Seq(S)
    /\ Len(s) = Len(p) + Len(q)
    /\ \A k \in 1 .. Len(p) : s[k] = p[k]
    /\ \A k \in 1 .. Len(q) : s[Len(p) + k] = q[k]

LEMMA JoinIs == ASSUME NEW S, NEW p, NEW q, NEW s, Joined(S, p, q, s) PROVE p \o q = s
  <1> DEFINE r == p \o q
  <1>1. /\ r \in Seq(S) /\ Len(r) = Len(p) + Len(q) /\ Len(p) \in Nat /\ Len(q) \in Nat
        /\ \A i \in 1 .. Len(r) : r[i] = IF i <= Len(p) THEN p[i] ELSE q[i - Len(p)]
    BY ConcatProperties, LenProperties DEF Joined
  <1> HIDE DEF r
  <1>2. ASSUME NEW i \in 1 .. Len(s) PROVE s[i] = r[i]
    <2>1. CASE i <= Len(p)
      BY <1>1, <2>1 DEF Joined
    <2>2. CASE ~(i <= Len(p))
      <3>1. i - Len(p) \in 1 .. Len(q) /\ Len(p) + (i - Len(p)) = i
        BY <1>1, <2>2 DEF Joined
      <3> QED BY <1>1, <2>2, <3>1 DEF Joined
    <2> QED BY <2>1, <2>2
  <1> QED BY <1>1, <1>2, SeqEqual DEF r, Joined

-----------------------------------------------------------------------------
(***************************************************************************)
(* Types.                                                                  *)
(***************************************************************************)

Ops == {"span", "mark", "flush_thread", "increment", "trigger", "own", "init_thread", "init",
        "drain", "check", "wait", "format", "send", "shutdown", "join", "clear"}

Steps ==
    {Do(op) : op \in Ops}
      \cup {With("queue", s) : s \in Shared} \cup {With("flush", s) : s \in Shared}
      \cup {With("cut", s) : s \in Streams} \cup {With("enqueue", m) : m \in Messages}

TypeInv ==
    /\ GDispatch \in {"unset", "set", "null"}
    /\ mutex \in [Shared -> Callers \cup {None}]
    /\ empty \in [Streams -> BOOLEAN]
    /\ blocks \in [Streams -> Nat]
    /\ full \in [Callers -> BOOLEAN]
    /\ ptr \in [Callers -> BOOLEAN]
    /\ being_init \in [Callers -> BOOLEAN]
    /\ ThreadStreams \subseteq Callers
    /\ stack \in [Callers -> Seq(Steps)]
    /\ Queue \in Seq(Messages)
    /\ QueueSize \in Int
    /\ WakeupThread \in BOOLEAN
    /\ RequestShutdown \in BOOLEAN
    /\ current \in Messages \cup {None}
    /\ ready \in {"no", "yes", "notified"}
    /\ console \subseteq Kinds
    /\ flushes \in Nat

(* The step that t does next. *)
Top(t) == Frame(stack[t], Len(stack[t]))

(* Only the stack of t changes, above depth b. *)
Moves(t, b, up) ==
    /\ stack' \in [Callers -> Seq(Steps)]
    /\ Grown(stack[t], stack'[t], b, up)
    /\ \A u \in Callers : u # t => stack'[u] = stack[u]

Calls(t, up) == stack[t] # <<>> /\ Moves(t, Len(stack[t]) - 1, up)

LEMMA StepKinds ==
  /\ \A op \in Ops : Do(op) \in Steps
  /\ \A s \in Shared : With("queue", s) \in Steps /\ With("flush", s) \in Steps
  /\ \A s \in Streams : With("cut", s) \in Steps
  /\ \A m \in Messages : With("enqueue", m) \in Steps
  /\ \A x \in Steps :
        /\ x = <<x[1], x[2]>>
        /\ x[1] \in Ops => x = Do(x[1])
        /\ x[1] = "queue" => x[2] \in Shared
        /\ x[1] = "flush" => x[2] \in Shared
        /\ x[1] = "cut" => x[2] \in Streams
        /\ x[1] = "enqueue" => x[2] \in Messages
  <1>1. /\ \A op \in Ops : Do(op) \in Steps
        /\ \A s \in Shared : With("queue", s) \in Steps /\ With("flush", s) \in Steps
        /\ \A s \in Streams : With("cut", s) \in Steps
        /\ \A m \in Messages : With("enqueue", m) \in Steps
    BY DEF Steps
  <1>2. ASSUME NEW x \in Steps
        PROVE  /\ x = <<x[1], x[2]>>
               /\ x[1] \in Ops => x = Do(x[1])
               /\ x[1] = "queue" => x[2] \in Shared
               /\ x[1] = "flush" => x[2] \in Shared
               /\ x[1] = "cut" => x[2] \in Streams
               /\ x[1] = "enqueue" => x[2] \in Messages
    <2>1. CASE \E op \in Ops : x = Do(op)
      BY <2>1 DEF Do, Ops
    <2>2. CASE \E s \in Shared : x = With("queue", s)
      BY <2>2 DEF With, Ops
    <2>3. CASE \E s \in Shared : x = With("flush", s)
      BY <2>3 DEF With, Ops
    <2>4. CASE \E s \in Streams : x = With("cut", s)
      BY <2>4 DEF With, Ops
    <2>5. CASE \E m \in Messages : x = With("enqueue", m)
      BY <2>5 DEF With, Ops
    <2> QED BY <2>1, <2>2, <2>3, <2>4, <2>5 DEF Steps
  <1> QED BY <1>1, <1>2

LEMMA MessageKinds ==
  /\ Process \in Messages
  /\ \A s \in Streams : InitStream(s) \in Messages
  /\ \A s \in Streams, n \in Nat : Block(s, n) \in Messages
  BY DEF Messages, Block

LEMMA StreamKinds ==
  /\ Shared \subseteq Streams /\ Callers \subseteq Streams /\ Log \in Shared /\ Metrics \in Shared
  /\ Main \in Callers /\ Worker \in Callers /\ Main # Worker /\ None \notin Callers
  /\ Log # Metrics /\ \A s \in Streams : s \in Shared \/ s \in Callers
  /\ \A s \in Shared : s \notin Callers
  BY UnrealAssumption DEF Shared, Callers, Streams

LEMMA AtTop ==
  ASSUME TypeInv, NEW t \in Callers, NEW op, At(t, op)
  PROVE  /\ stack[t] # <<>> /\ Len(stack[t]) \in Nat \ {0}
         /\ Top(t) \in Steps /\ Top(t)[1] = op /\ Top(t)[2] = Arg(t)
         /\ op = "queue" => Top(t) = With("queue", Arg(t)) /\ Arg(t) \in Shared
         /\ op = "flush" => Top(t) = With("flush", Arg(t)) /\ Arg(t) \in Shared
         /\ op = "cut" => Top(t) = With("cut", Arg(t)) /\ Arg(t) \in Streams
         /\ op = "enqueue" => Top(t) = With("enqueue", Arg(t)) /\ Arg(t) \in Messages
         /\ op \in Ops => Top(t) = Do(op)
  <1>1. stack[t] \in Seq(Steps) /\ stack[t] # <<>>
    BY DEF TypeInv, At
  <1>2. /\ Len(stack[t]) \in Nat \ {0} /\ Head(stack[t]) = stack[t][1]
        /\ Head(stack[t]) \in Steps
    BY <1>1, HeadTailProperties, LenProperties
  <1>3. Len(stack[t]) + 1 - Len(stack[t]) = 1
    BY <1>2
  <1>4. Top(t) = Head(stack[t])
    BY <1>2, <1>3 DEF Top, Frame
  <1> QED BY <1>1, <1>2, <1>4, StepKinds DEF At, Arg, With

LEMMA CallMoves ==
  ASSUME TypeInv, NEW t \in Callers, stack[t] # <<>>, NEW steps \in Seq(Steps), NEW up,
         Turned(steps, up), Call(t, steps)
  PROVE  Calls(t, up)
  <1>1. stack[t] \in Seq(Steps) /\ stack' = [stack EXCEPT ![t] = steps \o Tail(stack[t])]
    BY DEF TypeInv, Call
  <1>2. /\ steps \o Tail(stack[t]) \in Seq(Steps)
        /\ Grown(stack[t], steps \o Tail(stack[t]), Len(stack[t]) - 1, up)
    BY <1>1, CallGrows
  <1> QED BY <1>1, <1>2 DEF TypeInv, Calls, Moves

LEMMA StartMoves ==
  ASSUME TypeInv, NEW t \in Callers, NEW steps \in Seq(Steps), NEW up, Turned(steps, up),
         stack' = [stack EXCEPT ![t] = steps]
  PROVE  Moves(t, 0, up)
  BY StartGrows DEF TypeInv, Moves

(***************************************************************************)
(* The lists of steps that are pushed, from the bottom up.                 *)
(***************************************************************************)

AllocUp(t) == <<Do("own"), Do("trigger"), With("enqueue", InitStream(t)), Do("increment")>>

AllocThenUp(t, x) ==
    <<x, Do("own"), Do("trigger"), With("enqueue", InitStream(t)), Do("increment")>>

BlockUp(m) ==
    <<Do("span"), Do("trigger"), With("enqueue", m), Do("increment"), Do("span")>>

FlushUp(s) == <<Do("span"), With("cut", s), Do("span")>>

SendUp == <<Do("drain"), Do("span"), Do("send"), Do("span"), Do("format")>>

SendMetricUp ==
    <<Do("drain"), Do("span"), Do("send"), Do("span"), Do("format"), With("queue", Metrics)>>

SendFlushUp ==
    <<Do("drain"), Do("span"), Do("send"), Do("span"), Do("format"),
      Do("span"), With("cut", Metrics), Do("span")>>

FormatUp ==
    <<Do("span"), Do("span"), Do("span"), Do("span"), Do("span"), With("queue", Log),
      Do("span"), Do("span"), Do("span"), Do("span"), Do("span")>>

IterationUp == <<Do("wait"), Do("check"), Do("drain")>>

IterationFlushUp ==
    <<Do("wait"), Do("check"), Do("drain"), Do("flush_thread"), Do("mark"),
      With("flush", Metrics), With("flush", Log)>>

FlushAllUp == <<Do("flush_thread"), Do("mark"), With("flush", Metrics), With("flush", Log)>>

UnloadUp ==
    <<Do("clear"), Do("join"), Do("trigger"), Do("shutdown"), With("queue", Log),
      Do("flush_thread"), Do("mark"), With("flush", Metrics), With("flush", Log)>>

InitUp ==
    <<Do("trigger"), With("enqueue", InitStream(Metrics)), Do("increment"),
      Do("trigger"), With("enqueue", InitStream(Log)), Do("increment"),
      Do("trigger"), With("enqueue", Process), Do("increment"), Do("init_thread")>>

LEMMA StepsThere ==
  /\ Do("span") \in Steps /\ Do("mark") \in Steps /\ Do("flush_thread") \in Steps
  /\ Do("increment") \in Steps /\ Do("trigger") \in Steps /\ Do("own") \in Steps
  /\ Do("init_thread") \in Steps /\ Do("drain") \in Steps /\ Do("check") \in Steps
  /\ Do("wait") \in Steps /\ Do("send") \in Steps /\ Do("shutdown") \in Steps
  /\ Do("join") \in Steps /\ Do("clear") \in Steps /\ Do("format") \in Steps
  /\ With("queue", Metrics) \in Steps /\ With("queue", Log) \in Steps
  /\ With("cut", Metrics) \in Steps
  /\ With("flush", Metrics) \in Steps /\ With("flush", Log) \in Steps
  /\ \A t \in Callers : With("enqueue", InitStream(t)) \in Steps /\ With("cut", t) \in Steps
  /\ With("enqueue", InitStream(Log)) \in Steps /\ With("enqueue", InitStream(Metrics)) \in Steps
  /\ With("enqueue", Process) \in Steps
  BY StepKinds, MessageKinds, StreamKinds DEF Ops

LEMMA AllocIs ==
  ASSUME NEW t \in Callers
  PROVE  /\ Alloc(t, <<>>) \in Seq(Steps) /\ Turned(Alloc(t, <<>>), AllocUp(t))
         /\ \A x \in Steps : /\ Alloc(t, <<x>>) \in Seq(Steps)
                             /\ Turned(Alloc(t, <<x>>), AllocThenUp(t, x))
  <1> DEFINE A == Do("increment")
             B == With("enqueue", InitStream(t))
             C == Do("trigger")
             D == Do("own")
  <1>0. A \in Steps /\ B \in Steps /\ C \in Steps /\ D \in Steps
    BY StepsThere
  <1>1. AllocUp(t) = <<D, C, B, A>> /\ \A x : AllocThenUp(t, x) = <<x, D, C, B, A>>
    BY DEF AllocUp, AllocThenUp
  <1>2. \A then : Alloc(t, then) = (<<A, B, C>> \o <<D>>) \o then
    BY DEF Alloc, Submit
  <1> HIDE DEF A, B, C, D
  <1>3. Joined(Steps, <<A, B, C>>, <<D>>, <<A, B, C, D>>)
    BY <1>0 DEF Joined
  <1>4. <<A, B, C>> \o <<D>> = <<A, B, C, D>>
    BY <1>3, JoinIs
  <1>5. <<A, B, C, D>> \in Seq(Steps) /\ Turned(<<A, B, C, D>>, <<D, C, B, A>>)
    BY <1>0 DEF Turned
  <1>6. Alloc(t, <<>>) = <<A, B, C, D>>
    BY <1>2, <1>4, <1>5, ConcatEmptySeq
  <1>7. ASSUME NEW x \in Steps
        PROVE  /\ Alloc(t, <<x>>) \in Seq(Steps)
               /\ Turned(Alloc(t, <<x>>), AllocThenUp(t, x))
    <2>1. Joined(Steps, <<A, B, C, D>>, <<x>>, <<A, B, C, D, x>>)
      BY <1>0 DEF Joined
    <2>2. <<A, B, C, D>> \o <<x>> = <<A, B, C, D, x>>
      BY <2>1, JoinIs
    <2>3. Alloc(t, <<x>>) = <<A, B, C, D, x>>
      BY <1>2, <1>4, <2>2
    <2>4. <<A, B, C, D, x>> \in Seq(Steps) /\ Turned(<<A, B, C, D, x>>, <<x, D, C, B, A>>)
      BY <1>0 DEF Turned
    <2> QED BY <1>1, <2>3, <2>4
  <1> QED BY <1>1, <1>5, <1>6, <1>7

LEMMA BlockIs ==
  ASSUME NEW s \in Streams, NEW n \in Nat
  PROVE  /\ OnProcessBlock(s, n) \in Seq(Steps)
         /\ ShouldSampleBlock(s) => Turned(OnProcessBlock(s, n), BlockUp(Block(s, n)))
         /\ ~ShouldSampleBlock(s) => Turned(OnProcessBlock(s, n), <<Do("span"), Do("span")>>)
  <1> DEFINE A == Do("increment")
             B == With("enqueue", Block(s, n))
             C == Do("trigger")
             D == Do("span")
  <1>0. A \in Steps /\ B \in Steps /\ C \in Steps /\ D \in Steps
    BY StepsThere, StepKinds, MessageKinds
  <1>1. /\ BlockUp(Block(s, n)) = <<D, C, B, A, D>>
        /\ ShouldSampleBlock(s) => OnProcessBlock(s, n) = (<<D>> \o <<A, B, C>>) \o <<D>>
        /\ ~ShouldSampleBlock(s) => OnProcessBlock(s, n) = (<<D>> \o <<>>) \o <<D>>
    BY DEF BlockUp, OnProcessBlock, Submit
  <1> HIDE DEF A, B, C, D
  <1>2. (<<D>> \o <<A, B, C>>) \o <<D>> = <<D, A, B, C, D>>
    <2>1. /\ Joined(Steps, <<D>>, <<A, B, C>>, <<D, A, B, C>>)
          /\ Joined(Steps, <<D, A, B, C>>, <<D>>, <<D, A, B, C, D>>)
      BY <1>0 DEF Joined
    <2>2. <<D>> \o <<A, B, C>> = <<D, A, B, C>>
      BY <2>1, JoinIs
    <2>3. <<D, A, B, C>> \o <<D>> = <<D, A, B, C, D>>
      BY <2>1, JoinIs
    <2> QED BY <2>2, <2>3
  <1>3. (<<D>> \o <<>>) \o <<D>> = <<D, D>>
    <2> DEFINE p == <<D>>
               q == <<D, D>>
    <2>1. p \in Seq(Steps) /\ q \in Seq(Steps)
      BY <1>0
    <2>2. Len(p) = 1 /\ Len(q) = 2 /\ q[1] = p[1] /\ q[2] = p[1]
      OBVIOUS
    <2> HIDE DEF p, q
    <2>3. Joined(Steps, p, p, q)
      BY <2>1, <2>2 DEF Joined
    <2>4. p \o p = q /\ p \o <<>> = p
      BY <2>1, <2>3, JoinIs, ConcatEmptySeq
    <2>5. (p \o <<>>) \o p = q
      BY <2>4
    <2> QED BY <2>5 DEF p, q
  <1>4. /\ <<D, A, B, C, D>> \in Seq(Steps) /\ Turned(<<D, A, B, C, D>>, <<D, C, B, A, D>>)
        /\ <<D, D>> \in Seq(Steps) /\ Turned(<<D, D>>, <<D, D>>)
    BY <1>0 DEF Turned
  <1> QED BY <1>1, <1>2, <1>3, <1>4 DEF D

LEMMA FlushIs ==
  ASSUME NEW s \in Shared
  PROVE  /\ FlushImpl(s) \in Seq(Steps) /\ Turned(FlushImpl(s), FlushUp(s))
         /\ FlushImpl(s) \o <<>> = FlushImpl(s)
  <1>1. Do("span") \in Steps /\ With("cut", s) \in Steps
    BY StepsThere, StepKinds, StreamKinds
  <1>2. FlushImpl(s) \in Seq(Steps) /\ Turned(FlushImpl(s), FlushUp(s))
    BY <1>1 DEF FlushImpl, FlushUp, Turned
  <1> QED BY <1>2, ConcatEmptySeq

LEMMA IterationIs ==
  /\ Iteration \in Seq(Steps) /\ Turned(Iteration, IterationUp)
  /\ FlushAll \in Seq(Steps) /\ Turned(FlushAll, FlushAllUp)
  /\ FlushAll \o Iteration \in Seq(Steps) /\ Turned(FlushAll \o Iteration, IterationFlushUp)
  <1> DEFINE A == With("flush", Log)
             B == With("flush", Metrics)
             C == Do("mark")
             D == Do("flush_thread")
             E == Do("drain")
             F == Do("check")
             G == Do("wait")
  <1>0. /\ A \in Steps /\ B \in Steps /\ C \in Steps /\ D \in Steps
        /\ E \in Steps /\ F \in Steps /\ G \in Steps
    BY StepsThere
  <1>1. /\ Iteration = <<E, F, G>> /\ IterationUp = <<G, F, E>>
        /\ FlushAll = <<A, B, C, D>> /\ FlushAllUp = <<D, C, B, A>>
        /\ IterationFlushUp = <<G, F, E, D, C, B, A>>
    BY DEF Iteration, IterationUp, FlushAll, FlushAllUp, IterationFlushUp
  <1> HIDE DEF A, B, C, D, E, F, G
  <1>2. Joined(Steps, <<A, B, C, D>>, <<E, F, G>>, <<A, B, C, D, E, F, G>>)
    BY <1>0 DEF Joined
  <1>3. <<A, B, C, D>> \o <<E, F, G>> = <<A, B, C, D, E, F, G>>
    BY <1>2, JoinIs
  <1>4. /\ <<E, F, G>> \in Seq(Steps) /\ Turned(<<E, F, G>>, <<G, F, E>>)
        /\ <<A, B, C, D>> \in Seq(Steps) /\ Turned(<<A, B, C, D>>, <<D, C, B, A>>)
    BY <1>0 DEF Turned
  <1>5. /\ <<A, B, C, D, E, F, G>> \in Seq(Steps)
        /\ Turned(<<A, B, C, D, E, F, G>>, <<G, F, E, D, C, B, A>>)
    BY <1>0 DEF Turned
  <1> QED BY <1>1, <1>3, <1>4, <1>5

LEMMA UnloadIs ==
  LET steps == FlushAll \o <<With("queue", Log), Do("shutdown"), Do("trigger"),
                             Do("join"), Do("clear")>>
  IN  steps \in Seq(Steps) /\ Turned(steps, UnloadUp)
  <1> DEFINE A == With("flush", Log)
             B == With("flush", Metrics)
             C == Do("mark")
             D == Do("flush_thread")
             E == With("queue", Log)
             F == Do("shutdown")
             G == Do("trigger")
             H == Do("join")
             K == Do("clear")
  <1>0. /\ A \in Steps /\ B \in Steps /\ C \in Steps /\ D \in Steps /\ E \in Steps
        /\ F \in Steps /\ G \in Steps /\ H \in Steps /\ K \in Steps
    BY StepsThere
  <1>1. FlushAll = <<A, B, C, D>> /\ UnloadUp = <<K, H, G, F, E, D, C, B, A>>
    BY DEF FlushAll, UnloadUp
  <1>2. SUFFICES LET steps == <<A, B, C, D>> \o <<E, F, G, H, K>>
                 IN  steps \in Seq(Steps) /\ Turned(steps, <<K, H, G, F, E, D, C, B, A>>)
    BY <1>1
  <1> HIDE DEF A, B, C, D, E, F, G, H, K
  <1>3. Joined(Steps, <<A, B, C, D>>, <<E, F, G, H, K>>, <<A, B, C, D, E, F, G, H, K>>)
    BY <1>0 DEF Joined
  <1>4. <<A, B, C, D>> \o <<E, F, G, H, K>> = <<A, B, C, D, E, F, G, H, K>>
    BY <1>3, JoinIs
  <1>5. /\ <<A, B, C, D, E, F, G, H, K>> \in Seq(Steps)
        /\ Turned(<<A, B, C, D, E, F, G, H, K>>, <<K, H, G, F, E, D, C, B, A>>)
    BY <1>0 DEF Turned
  <1> QED BY <1>4, <1>5

LEMMA InitIs ==
  LET steps == <<Do("init_thread")>> \o Submit(Process) \o Submit(InitStream(Log))
                 \o Submit(InitStream(Metrics))
  IN  steps \in Seq(Steps) /\ Turned(steps, InitUp)
  <1> DEFINE A == Do("increment")
             B == With("enqueue", Process)
             C == Do("trigger")
             D == Do("init_thread")
             E == With("enqueue", InitStream(Log))
             F == With("enqueue", InitStream(Metrics))
  <1>0. /\ A \in Steps /\ B \in Steps /\ C \in Steps /\ D \in Steps /\ E \in Steps /\ F \in Steps
    BY StepsThere
  <1>1. /\ Submit(Process) = <<A, B, C>> /\ Submit(InitStream(Log)) = <<A, E, C>>
        /\ Submit(InitStream(Metrics)) = <<A, F, C>>
        /\ InitUp = <<C, F, A, C, E, A, C, B, A, D>>
    BY DEF Submit, InitUp
  <1>2. SUFFICES LET steps == ((<<D>> \o <<A, B, C>>) \o <<A, E, C>>) \o <<A, F, C>>
                 IN  steps \in Seq(Steps) /\ Turned(steps, <<C, F, A, C, E, A, C, B, A, D>>)
    BY <1>1
  <1> HIDE DEF A, B, C, D, E, F
  <1>3. /\ Joined(Steps, <<D>>, <<A, B, C>>, <<D, A, B, C>>)
        /\ Joined(Steps, <<D, A, B, C>>, <<A, E, C>>, <<D, A, B, C, A, E, C>>)
        /\ Joined(Steps, <<D, A, B, C, A, E, C>>, <<A, F, C>>, <<D, A, B, C, A, E, C, A, F, C>>)
    BY <1>0 DEF Joined
  <1>4. <<D>> \o <<A, B, C>> = <<D, A, B, C>>
    BY <1>3, JoinIs
  <1>5. <<D, A, B, C>> \o <<A, E, C>> = <<D, A, B, C, A, E, C>>
    BY <1>3, JoinIs
  <1>6. <<D, A, B, C, A, E, C>> \o <<A, F, C>> = <<D, A, B, C, A, E, C, A, F, C>>
    BY <1>3, JoinIs
  <1>7. /\ <<D, A, B, C, A, E, C, A, F, C>> \in Seq(Steps)
        /\ Turned(<<D, A, B, C, A, E, C, A, F, C>>, <<C, F, A, C, E, A, C, B, A, D>>)
    BY <1>0 DEF Turned
  <1> QED BY <1>4, <1>5, <1>6, <1>7

Sending == <<Do("format"), Do("span"), Do("send"), Do("span"), Do("drain")>>

LEMMA SendIs ==
  /\ Sending \in Seq(Steps) /\ Turned(Sending, SendUp)
  /\ <<With("queue", Metrics)>> \o Sending \in Seq(Steps)
  /\ Turned(<<With("queue", Metrics)>> \o Sending, SendMetricUp)
  /\ FlushImpl(Metrics) \o Sending \in Seq(Steps)
  /\ Turned(FlushImpl(Metrics) \o Sending, SendFlushUp)
  <1> DEFINE A == With("queue", Metrics)
             B == With("cut", Metrics)
             C == Do("span")
             D == Do("send")
             E == Do("drain")
             F == Do("format")
  <1>0. /\ A \in Steps /\ B \in Steps /\ C \in Steps /\ D \in Steps /\ E \in Steps
        /\ F \in Steps
    BY StepsThere
  <1>1. /\ Sending = <<F, C, D, C, E>> /\ SendUp = <<E, C, D, C, F>>
        /\ SendMetricUp = <<E, C, D, C, F, A>>
        /\ FlushImpl(Metrics) = <<C, B, C>> /\ SendFlushUp = <<E, C, D, C, F, C, B, C>>
    BY DEF Sending, SendUp, SendMetricUp, SendFlushUp, FlushImpl
  <1> HIDE DEF A, B, C, D, E, F
  <1>2. /\ Joined(Steps, <<A>>, <<F, C, D, C, E>>, <<A, F, C, D, C, E>>)
        /\ Joined(Steps, <<C, B, C>>, <<F, C, D, C, E>>, <<C, B, C, F, C, D, C, E>>)
    BY <1>0 DEF Joined
  <1>3. <<A>> \o <<F, C, D, C, E>> = <<A, F, C, D, C, E>>
    BY <1>2, JoinIs
  <1>4. <<C, B, C>> \o <<F, C, D, C, E>> = <<C, B, C, F, C, D, C, E>>
    BY <1>2, JoinIs
  <1>5. /\ <<F, C, D, C, E>> \in Seq(Steps) /\ Turned(<<F, C, D, C, E>>, <<E, C, D, C, F>>)
        /\ <<A, F, C, D, C, E>> \in Seq(Steps) /\ Turned(<<A, F, C, D, C, E>>, <<E, C, D, C, F, A>>)
    BY <1>0 DEF Turned
  <1>6. /\ <<C, B, C, F, C, D, C, E>> \in Seq(Steps)
        /\ Turned(<<C, B, C, F, C, D, C, E>>, <<E, C, D, C, F, C, B, C>>)
    BY <1>0 DEF Turned
  <1>7. Turned(<<A>> \o <<F, C, D, C, E>>, <<E, C, D, C, F, A>>)
    BY <1>3, <1>5
  <1>8. Turned(<<C, B, C>> \o <<F, C, D, C, E>>, <<E, C, D, C, F, C, B, C>>)
    BY <1>4, <1>6
  <1> QED BY <1>1, <1>3, <1>4, <1>5, <1>6, <1>7, <1>8 DEF A

LEMMA FormatIs == FormatBlockRequest \in Seq(Steps) /\ Turned(FormatBlockRequest, FormatUp)
  <1> DEFINE A == Do("span")
             B == With("queue", Log)
  <1>0. A \in Steps /\ B \in Steps
    BY StepsThere
  <1>1. /\ FormatBlockRequest = <<A, A, A, A, A, B, A, A, A, A, A>>
        /\ FormatUp = <<A, A, A, A, A, B, A, A, A, A, A>>
    BY DEF FormatBlockRequest, FormatUp
  <1> HIDE DEF A, B
  <1>2. /\ <<A, A, A, A, A, B, A, A, A, A, A>> \in Seq(Steps)
        /\ Turned(<<A, A, A, A, A, B, A, A, A, A, A>>, <<A, A, A, A, A, B, A, A, A, A, A>>)
    BY <1>0 DEF Turned
  <1> QED BY <1>1, <1>2

-----------------------------------------------------------------------------
(***************************************************************************)
(* What the actions do, in terms of depths.                                *)
(***************************************************************************)

(* The steps of t end, or t takes the mutex of s to flush it. *)
Pops(t)     == Calls(t, <<>>) /\ UNCHANGED mutex
Locks(t, s) == /\ mutex[s] = None
               /\ mutex' = [mutex EXCEPT ![s] = t]

(* A new thread stream, with up to do, or none while one is being made. *)
Announces(t, up) ==
    /\ ~ptr[t]
    /\ \/ /\ GDispatch = "set" /\ ~being_init[t]
          /\ being_init' = [being_init EXCEPT ![t] = TRUE]
          /\ Calls(t, up)
       \/ Calls(t, <<>>) /\ UNCHANGED being_init

LEMMA PopCalls ==
  ASSUME TypeInv, NEW t \in Callers, stack[t] # <<>>, Call(t, <<>>)
  PROVE  Calls(t, <<>>)
  <1>1. <<>> \in Seq(Steps) /\ Turned(<<>>, <<>>)
    BY DEF Turned
  <1> QED BY <1>1, CallMoves

LEMMA OneCalls ==
  ASSUME TypeInv, NEW t \in Callers, stack[t] # <<>>, NEW x \in Steps, Call(t, <<x>>)
  PROVE  Calls(t, <<x>>)
  <1>1. <<x>> \in Seq(Steps) /\ Turned(<<x>>, <<x>>)
    BY DEF Turned
  <1> QED BY <1>1, CallMoves

(* An event for the stream s. *)
Queues(t, s) ==
    /\ Top(t) = With("queue", s) /\ mutex[s] = None
    /\ Pops(t) \/ (Locks(t, s) /\ Calls(t, FlushUp(s)))
    /\ UNCHANGED <<GDispatch, blocks, full, ptr, being_init, ThreadStreams, Queue,
         QueueSize, WakeupThread, RequestShutdown, current, handled, ready, console,
         flushes, owed>>
    /\ empty' \in [Streams -> BOOLEAN]

LEMMA QueueEffect ==
  ASSUME TypeInv, NEW t \in Callers, QueueShared(t)
  PROVE  \E s \in Shared : Queues(t, s)
  <1>1. /\ stack[t] # <<>> /\ Top(t) = With("queue", Arg(t)) /\ Arg(t) \in Shared
    BY AtTop DEF QueueShared
  <1>2. Push(t, Arg(t), <<>>)
    BY DEF QueueShared
  <1>3. mutex[Arg(t)] = None /\ empty' \in [Streams -> BOOLEAN]
    BY <1>1, <1>2, StreamKinds DEF Push, TypeInv
  <1>4. \/ Call(t, <<>>) /\ UNCHANGED mutex
        \/ mutex' = [mutex EXCEPT ![Arg(t)] = t] /\ Call(t, FlushImpl(Arg(t)))
    BY <1>1, <1>2, FlushIs DEF Push
  <1>5. Pops(t) \/ (Locks(t, Arg(t)) /\ Calls(t, FlushUp(Arg(t))))
    BY <1>1, <1>3, <1>4, FlushIs, PopCalls, CallMoves DEF Pops, Locks
  <1> QED BY <1>1, <1>3, <1>5 DEF QueueShared, Queues, sink, run, env

(* A flush of the stream s. *)
Flushes(t, s) ==
    /\ Top(t) = With("flush", s)
    /\ Pops(t) \/ (Locks(t, s) /\ Calls(t, FlushUp(s)))
    /\ UNCHANGED <<GDispatch, empty, blocks, full, ptr, being_init, ThreadStreams, Queue,
         QueueSize, WakeupThread, RequestShutdown, current, handled, ready, console,
         flushes, owed>>

LEMMA FlushEffect ==
  ASSUME TypeInv, NEW t \in Callers, FlushShared(t)
  PROVE  \E s \in Shared : Flushes(t, s)
  <1>1. /\ stack[t] # <<>> /\ Top(t) = With("flush", Arg(t)) /\ Arg(t) \in Shared
    BY AtTop DEF FlushShared
  <1>2. Pops(t) \/ (Locks(t, Arg(t)) /\ Calls(t, FlushUp(Arg(t))))
    BY <1>1, FlushIs, PopCalls, CallMoves DEF FlushShared, Pops, Locks
  <1> QED BY <1>1, <1>2 DEF FlushShared, Flushes, sink, run, env

(* A block of s is cut. *)
Cuts(t, s) ==
    /\ Top(t) = With("cut", s)
    /\ s \in Shared => mutex' = [mutex EXCEPT ![s] = None]
    /\ s \notin Shared => UNCHANGED mutex
    /\ \/ Calls(t, <<>>) /\ UNCHANGED <<blocks, empty, full>>
       \/ /\ blocks' = [blocks EXCEPT ![s] = blocks[s] + 1]
          /\ empty' = [empty EXCEPT ![s] = TRUE]
          /\ full' \in [Callers -> BOOLEAN]
          /\ \/ ShouldSampleBlock(s) /\ Calls(t, BlockUp(Block(s, blocks[s] + 1)))
             \/ ~ShouldSampleBlock(s) /\ Calls(t, <<Do("span"), Do("span")>>)
    /\ UNCHANGED <<GDispatch, ptr, being_init, ThreadStreams, Queue, QueueSize,
         WakeupThread, RequestShutdown, current, handled, ready, console, flushes, owed>>

LEMMA CutEffect ==
  ASSUME TypeInv, NEW t \in Callers, CutBlock(t)
  PROVE  \E s \in Streams : Cuts(t, s)
  <1> DEFINE s == Arg(t)
  <1>1. /\ stack[t] # <<>> /\ Top(t) = With("cut", s) /\ s \in Streams
    BY AtTop DEF CutBlock
  <1>2. /\ s \in Shared => mutex' = [mutex EXCEPT ![s] = None]
        /\ s \notin Shared => UNCHANGED mutex
    BY DEF CutBlock, Unlock
  <1>3. blocks[s] + 1 \in Nat
    BY <1>1 DEF TypeInv
  <1> HIDE DEF s
  <1>4. CASE empty[s] /\ Call(t, <<>>) /\ UNCHANGED <<empty, blocks, full>>
    <2>1. Calls(t, <<>>)
      BY <1>1, <1>4, PopCalls
    <2> QED BY <1>1, <1>2, <1>4, <2>1 DEF CutBlock, Cuts, sink, run, env
  <1>5. CASE /\ empty' = [empty EXCEPT ![s] = TRUE]
             /\ full' = IF s \in Shared THEN full ELSE [full EXCEPT ![s] = FALSE]
             /\ blocks' = [blocks EXCEPT ![s] = NextBlock(s)]
             /\ Call(t, OnProcessBlock(s, NextBlock(s)))
    <2>1. \/ ShouldSampleBlock(s) /\ Calls(t, BlockUp(Block(s, blocks[s] + 1)))
          \/ ~ShouldSampleBlock(s) /\ Calls(t, <<Do("span"), Do("span")>>)
      BY <1>1, <1>3, <1>5, BlockIs, CallMoves DEF NextBlock
    <2>2. full' \in [Callers -> BOOLEAN]
      BY <1>1, <1>5, StreamKinds DEF TypeInv
    <2> QED BY <1>1, <1>2, <1>5, <2>1, <2>2 DEF CutBlock, Cuts, NextBlock, sink, run, env
  <1> QED BY <1>4, <1>5 DEF CutBlock, s

LEMMA OwnEffect ==
  ASSUME TypeInv, NEW t \in Callers, Own(t)
  PROVE  /\ Top(t) = Do("own")
         /\ Calls(t, <<>>)
         /\ ptr' = [ptr EXCEPT ![t] = TRUE]
         /\ UNCHANGED <<GDispatch, mutex, empty, blocks, full, being_init, ThreadStreams, Queue,
              QueueSize, WakeupThread, RequestShutdown, current, handled, ready, console,
              flushes, owed>>
  <1>1. stack[t] # <<>> /\ Top(t) = Do("own")
    BY AtTop DEF Own, Ops
  <1> QED BY <1>1, PopCalls DEF Own, sink, run, env

LEMMA NewStreamEffect ==
  ASSUME TypeInv, NEW t \in Callers, stack[t] # <<>>
  PROVE  /\ NewThreadStream(t, <<>>) => Announces(t, AllocUp(t)) /\ ThreadStreams' \subseteq Callers
         /\ \A x \in Steps : NewThreadStream(t, <<x>>) =>
               Announces(t, AllocThenUp(t, x)) /\ ThreadStreams' \subseteq Callers
  <1>1. ASSUME NewThreadStream(t, <<>>)
        PROVE  Announces(t, AllocUp(t)) /\ ThreadStreams' \subseteq Callers
    <2>1. Call(t, Alloc(t, <<>>)) => Calls(t, AllocUp(t))
      BY AllocIs, CallMoves
    <2> QED BY <1>1, <2>1, PopCalls DEF NewThreadStream, Announces, TypeInv
  <1>2. ASSUME NEW x \in Steps, NewThreadStream(t, <<x>>)
        PROVE  Announces(t, AllocThenUp(t, x)) /\ ThreadStreams' \subseteq Callers
    <2>1. Call(t, Alloc(t, <<x>>)) => Calls(t, AllocThenUp(t, x))
      BY AllocIs, CallMoves
    <2> QED BY <1>2, <2>1, PopCalls DEF NewThreadStream, Announces, TypeInv
  <1> QED BY <1>1, <1>2

LEMMA InitThreadEffect ==
  ASSUME TypeInv, NEW t \in Callers, InitCurrentThreadStream(t)
  PROVE  /\ Top(t) = Do("init_thread")
         /\ Announces(t, AllocUp(t)) \/ (Calls(t, <<>>) /\ UNCHANGED being_init)
         /\ ThreadStreams' \subseteq Callers
         /\ UNCHANGED <<GDispatch, mutex, empty, blocks, full, ptr, Queue, QueueSize,
              WakeupThread, RequestShutdown, current, handled, ready, console, flushes, owed>>
  <1>1. stack[t] # <<>> /\ Top(t) = Do("init_thread")
    BY AtTop DEF InitCurrentThreadStream, Ops
  <1>2. CASE NewThreadStream(t, <<>>)
    BY <1>1, <1>2, NewStreamEffect DEF InitCurrentThreadStream, sink, run, env
  <1>3. CASE Call(t, <<>>) /\ UNCHANGED <<being_init, ThreadStreams>>
    BY <1>1, <1>3, PopCalls DEF InitCurrentThreadStream, TypeInv, sink, run, env
  <1> QED BY <1>2, <1>3 DEF InitCurrentThreadStream

(* What t does with the stream that it has. *)
CutsOwn(t) ==
    /\ ptr[t]
    /\ Calls(t, <<>>) \/ Calls(t, <<With("cut", t)>>)
    /\ UNCHANGED being_init

LEMMA SpanEffect ==
  ASSUME TypeInv, NEW t \in Callers, QueueThreadEvent(t)
  PROVE  /\ Top(t) = Do("span")
         /\ Announces(t, AllocThenUp(t, Do("span"))) \/ CutsOwn(t)
         /\ ThreadStreams' \subseteq Callers
         /\ empty' \in [Streams -> BOOLEAN]
         /\ UNCHANGED <<GDispatch, mutex, blocks, full, ptr, Queue, QueueSize,
              WakeupThread, RequestShutdown, current, handled, ready, console, flushes, owed>>
  <1>1. stack[t] # <<>> /\ Top(t) = Do("span") /\ Do("span") \in Steps /\ With("cut", t) \in Steps
    BY AtTop, StepsThere DEF QueueThreadEvent, Ops
  <1>2. CASE NewThreadStream(t, <<Do("span")>>) /\ UNCHANGED empty
    BY <1>1, <1>2, NewStreamEffect DEF QueueThreadEvent, TypeInv, sink, run, env
  <1>3. CASE /\ ptr[t]
             /\ empty' = [empty EXCEPT ![t] = FALSE]
             /\ Call(t, <<>>) \/ Call(t, <<With("cut", t)>>)
             /\ UNCHANGED <<being_init, ThreadStreams>>
    BY <1>1, <1>3, PopCalls, OneCalls DEF QueueThreadEvent, CutsOwn, TypeInv, sink, run, env
  <1> QED BY <1>2, <1>3 DEF QueueThreadEvent

LEMMA MarkEffect ==
  ASSUME TypeInv, NEW t \in Callers, MarkStreamsFull(t)
  PROVE  /\ Top(t) = Do("mark")
         /\ Calls(t, <<>>)
         /\ full' \in [Callers -> BOOLEAN]
         /\ UNCHANGED <<GDispatch, mutex, empty, blocks, ptr, being_init, ThreadStreams, Queue,
              QueueSize, WakeupThread, RequestShutdown, current, handled, ready, console,
              flushes, owed>>
  <1>1. stack[t] # <<>> /\ Top(t) = Do("mark")
    BY AtTop DEF MarkStreamsFull, Ops
  <1>2. full' \in [Callers -> BOOLEAN]
    BY DEF MarkStreamsFull, TypeInv
  <1> QED BY <1>1, <1>2, PopCalls DEF MarkStreamsFull, sink, run, env

LEMMA FlushThreadEffect ==
  ASSUME TypeInv, NEW t \in Callers, FlushCurrentThreadStream(t)
  PROVE  /\ Top(t) = Do("flush_thread")
         /\ Announces(t, AllocThenUp(t, With("cut", t))) \/ CutsOwn(t)
         /\ ThreadStreams' \subseteq Callers
         /\ UNCHANGED <<GDispatch, mutex, empty, blocks, full, ptr, Queue, QueueSize,
              WakeupThread, RequestShutdown, current, handled, ready, console, flushes, owed>>
  <1>1. stack[t] # <<>> /\ Top(t) = Do("flush_thread") /\ With("cut", t) \in Steps
    BY AtTop, StepsThere DEF FlushCurrentThreadStream, Ops
  <1>2. CASE NewThreadStream(t, <<With("cut", t)>>)
    BY <1>1, <1>2, NewStreamEffect DEF FlushCurrentThreadStream, TypeInv, sink, run, env
  <1>3. CASE /\ ptr[t]
             /\ Call(t, <<>>) \/ Call(t, <<With("cut", t)>>)
             /\ UNCHANGED <<being_init, ThreadStreams>>
    BY <1>1, <1>3, PopCalls, OneCalls DEF FlushCurrentThreadStream, CutsOwn, TypeInv, sink, run, env
  <1> QED BY <1>2, <1>3 DEF FlushCurrentThreadStream

LEMMA MetricEffect ==
  ASSUME TypeInv, NEW t \in Callers, stack[t] # <<>>
  PROVE  /\ RecordMetric(t, <<>>) =>
              /\ empty' \in [Streams -> BOOLEAN]
              /\ \/ Pops(t)
                 \/ Calls(t, <<With("queue", Metrics)>>) /\ UNCHANGED mutex
                 \/ Locks(t, Metrics) /\ Calls(t, FlushUp(Metrics))
         /\ RecordMetric(t, Sending) =>
              /\ empty' \in [Streams -> BOOLEAN]
              /\ \/ Calls(t, SendUp) /\ UNCHANGED mutex
                 \/ Calls(t, SendMetricUp) /\ UNCHANGED mutex
                 \/ Locks(t, Metrics) /\ Calls(t, SendFlushUp)
  <1>0. Metrics \in Shared /\ Metrics \in Streams /\ With("queue", Metrics) \in Steps
    BY StreamKinds, StepsThere
  <1>1. ASSUME NEW steps, RecordMetric(t, steps)
        PROVE  /\ empty' \in [Streams -> BOOLEAN]
               /\ \/ Call(t, steps) /\ UNCHANGED mutex
                  \/ Call(t, <<With("queue", Metrics)>> \o steps) /\ UNCHANGED mutex
                  \/ Locks(t, Metrics) /\ Call(t, FlushImpl(Metrics) \o steps)
    BY <1>0, <1>1 DEF RecordMetric, Push, Locks, TypeInv
  <1>2. ASSUME RecordMetric(t, <<>>)
        PROVE  \/ Pops(t)
               \/ Calls(t, <<With("queue", Metrics)>>) /\ UNCHANGED mutex
               \/ Locks(t, Metrics) /\ Calls(t, FlushUp(Metrics))
    <2>1. <<With("queue", Metrics)>> \o <<>> = <<With("queue", Metrics)>>
      BY <1>0, ConcatEmptySeq
    <2>2. \/ Call(t, <<>>) /\ UNCHANGED mutex
          \/ Call(t, <<With("queue", Metrics)>>) /\ UNCHANGED mutex
          \/ Locks(t, Metrics) /\ Call(t, FlushImpl(Metrics))
      BY <1>0, <1>1, <1>2, <2>1, FlushIs
    <2> QED BY <1>0, <2>2, PopCalls, OneCalls, FlushIs, CallMoves DEF Pops
  <1>3. ASSUME RecordMetric(t, Sending)
        PROVE  \/ Calls(t, SendUp) /\ UNCHANGED mutex
               \/ Calls(t, SendMetricUp) /\ UNCHANGED mutex
               \/ Locks(t, Metrics) /\ Calls(t, SendFlushUp)
    <2>1. Call(t, Sending) => Calls(t, SendUp)
      BY SendIs, CallMoves
    <2>2. Call(t, <<With("queue", Metrics)>> \o Sending) => Calls(t, SendMetricUp)
      BY SendIs, CallMoves
    <2>3. Call(t, FlushImpl(Metrics) \o Sending) => Calls(t, SendFlushUp)
      BY SendIs, CallMoves
    <2> QED BY <1>1, <1>3, <2>1, <2>2, <2>3
  <1> QED BY <1>1, <1>2, <1>3

LEMMA IncrementEffect ==
  ASSUME TypeInv, NEW t \in Callers, IncrementQueueSize(t)
  PROVE  /\ Top(t) = Do("increment")
         /\ QueueSize' = QueueSize + 1
         /\ \/ Pops(t)
            \/ Calls(t, <<With("queue", Metrics)>>) /\ UNCHANGED mutex
            \/ Locks(t, Metrics) /\ Calls(t, FlushUp(Metrics))
         /\ empty' \in [Streams -> BOOLEAN]
         /\ UNCHANGED <<GDispatch, blocks, full, ptr, being_init, ThreadStreams, Queue,
              WakeupThread, RequestShutdown, current, handled, ready, console, flushes, owed>>
  <1>1. stack[t] # <<>> /\ Top(t) = Do("increment")
    BY AtTop DEF IncrementQueueSize, Ops
  <1> QED BY <1>1, MetricEffect DEF IncrementQueueSize, run, env

(* A message is queued. *)
Enqueues(t, m) ==
    /\ Top(t) = With("enqueue", m)
    /\ Queue' = Append(Queue, m)
    /\ Calls(t, <<>>)
    /\ UNCHANGED <<GDispatch, mutex, empty, blocks, full, ptr, being_init, ThreadStreams,
         QueueSize, WakeupThread, RequestShutdown, current, handled, ready, console,
         flushes, owed>>

LEMMA EnqueueEffect ==
  ASSUME TypeInv, NEW t \in Callers, Enqueue(t)
  PROVE  \E m \in Messages : Enqueues(t, m)
  <1>1. stack[t] # <<>> /\ Top(t) = With("enqueue", Arg(t)) /\ Arg(t) \in Messages
    BY AtTop DEF Enqueue
  <1> QED BY <1>1, PopCalls DEF Enqueue, Enqueues, Enqueued, dispatch, run, env

LEMMA TriggerEffect ==
  ASSUME TypeInv, NEW t \in Callers, Trigger(t)
  PROVE  /\ Top(t) = Do("trigger")
         /\ WakeupThread' = TRUE
         /\ Calls(t, <<>>)
         /\ UNCHANGED <<GDispatch, mutex, empty, blocks, full, ptr, being_init, ThreadStreams,
              Queue, QueueSize, RequestShutdown, current, handled, ready, console, flushes, owed>>
  <1>1. stack[t] # <<>> /\ Top(t) = Do("trigger")
    BY AtTop DEF Trigger, Ops
  <1> QED BY <1>1, PopCalls DEF Trigger, dispatch, run, env

LEMMA DrainEffect ==
  ASSUME TypeInv, Drain
  PROVE  /\ Top(Worker) = Do("drain")
         /\ \/ /\ ready = "no" \/ Queue = <<>>
               /\ Calls(Worker, <<>>)
               /\ UNCHANGED <<mutex, empty, Queue, QueueSize, current>>
            \/ /\ ready # "no" /\ Queue # <<>>
               /\ current' = Head(Queue)
               /\ Queue' = Tail(Queue)
               /\ QueueSize' = QueueSize - 1
               /\ empty' \in [Streams -> BOOLEAN]
               /\ \/ Calls(Worker, SendUp) /\ UNCHANGED mutex
                  \/ Calls(Worker, SendMetricUp) /\ UNCHANGED mutex
                  \/ Locks(Worker, Metrics) /\ Calls(Worker, SendFlushUp)
         /\ UNCHANGED <<GDispatch, blocks, full, ptr, being_init, ThreadStreams, WakeupThread,
              RequestShutdown, handled, ready, console, flushes, owed>>
  <1>1. stack[Worker] # <<>> /\ Top(Worker) = Do("drain") /\ Worker \in Callers
    BY AtTop, StreamKinds DEF Drain, Ops
  <1> QED BY <1>1, PopCalls, MetricEffect DEF Drain, Sending, env

LEMMA FormatEffect ==
  ASSUME TypeInv, FormatRequest
  PROVE  /\ Top(Worker) = Do("format")
         /\ Calls(Worker, <<>>) \/ Calls(Worker, FormatUp)
         /\ UNCHANGED <<GDispatch, mutex, empty, blocks, full, ptr, being_init, ThreadStreams,
              Queue, QueueSize, WakeupThread, RequestShutdown, current, handled, ready, console,
              flushes, owed>>
  <1>1. stack[Worker] # <<>> /\ Top(Worker) = Do("format") /\ Worker \in Callers
    BY AtTop, StreamKinds DEF FormatRequest, Ops
  <1>2. Calls(Worker, <<>>) \/ Calls(Worker, FormatUp)
    BY <1>1, FormatIs, PopCalls, CallMoves DEF FormatRequest
  <1> QED BY <1>1, <1>2 DEF FormatRequest, dispatch, sink, run, env

LEMMA SendEffect ==
  ASSUME TypeInv, SendBinaryRequest
  PROVE  /\ Top(Worker) = Do("send")
         /\ current' = None
         /\ handled' = handled \cup {current}
         /\ Calls(Worker, <<>>)
         /\ UNCHANGED <<GDispatch, mutex, empty, blocks, full, ptr, being_init, ThreadStreams,
              Queue, QueueSize, WakeupThread, RequestShutdown, ready, console, flushes, owed>>
  <1>1. stack[Worker] # <<>> /\ Top(Worker) = Do("send") /\ Worker \in Callers
    BY AtTop, StreamKinds DEF SendBinaryRequest, Ops
  <1> QED BY <1>1, PopCalls DEF SendBinaryRequest, dispatch, sink, env

LEMMA CheckEffect ==
  ASSUME TypeInv, CheckShutdown
  PROVE  /\ Top(Worker) = Do("check")
         /\ stack[Worker] # <<>>
         /\ \/ RequestShutdown /\ Moves(Worker, 0, <<>>) /\ stack'[Worker] = <<>>
            \/ ~RequestShutdown /\ Calls(Worker, <<>>)
         /\ UNCHANGED <<GDispatch, mutex, empty, blocks, full, ptr, being_init, ThreadStreams,
              Queue, QueueSize, WakeupThread, RequestShutdown, current, handled, ready, console,
              flushes, owed>>
  <1>1. stack[Worker] # <<>> /\ Top(Worker) = Do("check") /\ Worker \in Callers
    BY AtTop, StreamKinds DEF CheckShutdown, Ops
  <1>2. <<>> \in Seq(Steps) /\ Turned(<<>>, <<>>)
    BY DEF Turned
  <1>3. CASE RequestShutdown
    <2>1. stack' = [stack EXCEPT ![Worker] = <<>>]
      BY <1>3 DEF CheckShutdown
    <2>2. stack'[Worker] = <<>>
      BY <1>1, <2>1 DEF TypeInv
    <2>3. Moves(Worker, 0, <<>>)
      BY <1>1, <1>2, <2>1, StartMoves
    <2> QED BY <1>1, <1>3, <2>2, <2>3 DEF CheckShutdown, dispatch, sink, run, env
  <1>4. CASE ~RequestShutdown
    <2>1. stack' = [stack EXCEPT ![Worker] = Tail(stack[Worker])]
      BY <1>4 DEF CheckShutdown
    <2>2. Tail(stack[Worker]) = <<>> \o Tail(stack[Worker])
      BY <1>1, ConcatEmptySeq, HeadTailProperties DEF TypeInv
    <2>3. Call(Worker, <<>>)
      BY <2>1, <2>2 DEF Call
    <2> QED BY <1>1, <1>4, <2>3, PopCalls DEF CheckShutdown, dispatch, sink, run, env
  <1> QED BY <1>3, <1>4

LEMMA WaitEffect ==
  ASSUME TypeInv, Wait
  PROVE  /\ Top(Worker) = Do("wait")
         /\ Calls(Worker, IterationUp) \/ Calls(Worker, IterationFlushUp)
         /\ flushes' \in Nat
         /\ WakeupThread' = FALSE
         /\ UNCHANGED <<GDispatch, mutex, empty, blocks, full, ptr, being_init, ThreadStreams,
              Queue, QueueSize, RequestShutdown, current, handled, ready, console, owed>>
  <1>1. stack[Worker] # <<>> /\ Top(Worker) = Do("wait") /\ Worker \in Callers
    BY AtTop, StreamKinds DEF Wait, Ops
  <1>2. Calls(Worker, IterationUp) \/ Calls(Worker, IterationFlushUp)
    BY <1>1, IterationIs, CallMoves DEF Wait
  <1> QED BY <1>1, <1>2 DEF Wait, TypeInv, dispatch, run

LEMMA InitEffect ==
  ASSUME TypeInv, DispatchInit
  PROVE  /\ Top(Main) = Do("init")
         /\ GDispatch' = "set"
         /\ Calls(Main, InitUp)
         /\ UNCHANGED <<mutex, empty, blocks, full, ptr, being_init, ThreadStreams, Queue,
              QueueSize, WakeupThread, RequestShutdown, current, handled, ready, console,
              flushes, owed>>
  <1>1. stack[Main] # <<>> /\ Top(Main) = Do("init") /\ Main \in Callers
    BY AtTop, StreamKinds DEF DispatchInit, Ops
  <1>2. Calls(Main, InitUp)
    BY <1>1, InitIs, CallMoves DEF DispatchInit
  <1> QED BY <1>1, <1>2 DEF DispatchInit, sink, run, env

(* A thread that has nothing to do begins something. *)
Starts(t, up) == stack[t] = <<>> /\ Moves(t, 0, up)

LEMMA EventEffect ==
  ASSUME TypeInv, NEW t \in Callers, NEW s \in Shared \cup {t}, Event(t, s)
  PROVE  /\ GDispatch = "set" /\ t \in Threads
         /\ Starts(t, <<Do("span")>>) \/ (s \in Shared /\ Starts(t, <<With("queue", s)>>))
         /\ UNCHANGED <<GDispatch, mutex, empty, blocks, full, ptr, being_init, ThreadStreams,
              Queue, QueueSize, WakeupThread, RequestShutdown, current, handled, ready, console,
              flushes, owed>>
  <1>1. ASSUME NEW x \in Steps PROVE <<x>> \in Seq(Steps) /\ Turned(<<x>>, <<x>>)
    BY DEF Turned
  <1>2. Do("span") \in Steps /\ (s \in Shared => With("queue", s) \in Steps)
    BY StepsThere, StepKinds
  <1>3. CASE s = t
    <2>1. stack' = [stack EXCEPT ![t] = <<Do("span")>>]
      BY <1>3 DEF Event
    <2>2. Moves(t, 0, <<Do("span")>>)
      BY <1>1, <1>2, <2>1, StartMoves
    <2> QED BY <2>2 DEF Event, Starts, Idle, dispatch, sink, run, env
  <1>4. CASE s # t
    <2>1. stack' = [stack EXCEPT ![t] = <<With("queue", s)>>] /\ s \in Shared
      BY <1>4 DEF Event
    <2>2. Moves(t, 0, <<With("queue", s)>>)
      BY <1>1, <1>2, <2>1, StartMoves
    <2> QED BY <2>1, <2>2 DEF Event, Starts, Idle, dispatch, sink, run, env
  <1> QED BY <1>3, <1>4

LEMMA MainStartEffect ==
  ASSUME TypeInv, OnFlush \/ UnloadModule
  PROVE  /\ GDispatch = "set"
         /\ Starts(Main, FlushAllUp) \/ Starts(Main, UnloadUp)
         /\ flushes' \in Nat
         /\ UNCHANGED <<GDispatch, mutex, empty, blocks, full, ptr, being_init, ThreadStreams,
              Queue, QueueSize, WakeupThread, RequestShutdown, current, handled, ready, console,
              owed>>
  <1>1. CASE OnFlush
    <2>1. Moves(Main, 0, FlushAllUp)
      BY <1>1, IterationIs, StartMoves, StreamKinds DEF OnFlush
    <2> QED BY <1>1, <2>1 DEF OnFlush, Starts, Idle, TypeInv, dispatch, sink, run
  <1>2. CASE UnloadModule
    <2>1. Moves(Main, 0, UnloadUp)
      BY <1>2, UnloadIs, StartMoves, StreamKinds DEF UnloadModule
    <2> QED BY <1>2, <2>1 DEF UnloadModule, Starts, Idle, TypeInv, dispatch, sink, run
  <1> QED BY <1>1, <1>2

LEMMA RequestEffect ==
  ASSUME TypeInv, RequestTheShutdown
  PROVE  /\ Top(Main) = Do("shutdown")
         /\ RequestShutdown' = TRUE
         /\ owed' = IF ready # "no" /\ ~At(Worker, "check")
                    THEN {Queue[i] : i \in DOMAIN Queue} ELSE {}
         /\ Calls(Main, <<>>)
         /\ UNCHANGED <<GDispatch, mutex, empty, blocks, full, ptr, being_init, ThreadStreams,
              Queue, QueueSize, WakeupThread, current, handled, ready, console, flushes>>
  <1>1. stack[Main] # <<>> /\ Top(Main) = Do("shutdown") /\ Main \in Callers
    BY AtTop, StreamKinds DEF RequestTheShutdown, Ops
  <1> QED BY <1>1, PopCalls DEF RequestTheShutdown, dispatch, run

LEMMA JoinEffect ==
  ASSUME TypeInv, WaitForCompletion
  PROVE  /\ Top(Main) = Do("join")
         /\ Calls(Main, <<>>)
         /\ UNCHANGED <<GDispatch, mutex, empty, blocks, full, ptr, being_init, ThreadStreams,
              Queue, QueueSize, WakeupThread, RequestShutdown, current, handled, ready, console,
              flushes, owed>>
  <1>1. stack[Main] # <<>> /\ Top(Main) = Do("join") /\ Main \in Callers
    BY AtTop, StreamKinds DEF WaitForCompletion, Ops
  <1> QED BY <1>1, PopCalls DEF WaitForCompletion, dispatch, sink, run, env

LEMMA ClearEffect ==
  ASSUME TypeInv, ClearDispatch
  PROVE  /\ Top(Main) = Do("clear")
         /\ GDispatch' = "null"
         /\ Calls(Main, <<>>)
         /\ UNCHANGED <<mutex, empty, blocks, full, ptr, being_init, ThreadStreams,
              Queue, QueueSize, WakeupThread, RequestShutdown, current, handled, ready, console,
              flushes, owed>>
  <1>1. stack[Main] # <<>> /\ Top(Main) = Do("clear") /\ Main \in Callers
    BY AtTop, StreamKinds DEF ClearDispatch, Ops
  <1> QED BY <1>1, PopCalls DEF ClearDispatch, sink, run, env

LEMMA AuthEffect ==
  ASSUME AuthReady \/ OnAuthUpdated
  PROVE  /\ ready' = "yes" \/ (ready' = "notified" /\ WakeupThread' = TRUE)
         /\ ready' # "no" /\ WakeupThread' \in {WakeupThread, TRUE}
         /\ UNCHANGED <<GDispatch, mutex, empty, blocks, full, ptr, being_init, ThreadStreams,
              stack, Queue, QueueSize, RequestShutdown, current, handled, console, flushes, owed>>
  BY DEF AuthReady, OnAuthUpdated, dispatch, sink, run

LEMMA TypeInit == Init => TypeInv
  <1> SUFFICES ASSUME Init PROVE TypeInv
    OBVIOUS
  <1>1. stack \in [Callers -> Seq(Steps)]
    <2>1. <<>> \in Seq(Steps) /\ Iteration \in Seq(Steps) /\ <<Do("init")>> \in Seq(Steps)
      BY IterationIs, StepKinds DEF Ops
    <2>2. \A t \in Callers : stack[t] \in Seq(Steps)
      BY <2>1 DEF Init
    <2> QED BY <2>2 DEF Init
  <1>2. console \subseteq Kinds
    BY UnrealAssumption DEF Init
  <1>3. /\ mutex \in [Shared -> Callers \cup {None}] /\ empty \in [Streams -> BOOLEAN]
        /\ blocks \in [Streams -> Nat] /\ full \in [Callers -> BOOLEAN]
        /\ ptr \in [Callers -> BOOLEAN] /\ being_init \in [Callers -> BOOLEAN]
    BY DEF Init
  <1>4. /\ GDispatch = "unset" /\ ThreadStreams = {} /\ Queue = <<>> /\ QueueSize = 0
        /\ WakeupThread = FALSE /\ RequestShutdown = FALSE /\ current = None
        /\ ready = "no" /\ flushes = 0
    BY DEF Init
  <1>5. WakeupThread \in BOOLEAN /\ RequestShutdown \in BOOLEAN
    BY <1>4
  <1>6. Queue \in Seq(Messages) /\ QueueSize \in Int /\ flushes \in Nat
    BY <1>4
  <1> QED BY <1>1, <1>2, <1>3, <1>4, <1>5, <1>6 DEF TypeInv

LEMMA TypeStep ==
  ASSUME TypeInv, NEW t \in Callers, Step(t) PROVE TypeInv'
  <1>1. ASSUME NEW up, Calls(t, up) PROVE stack' \in [Callers -> Seq(Steps)]
    BY <1>1 DEF Calls, Moves
  <1>2. ASSUME NEW s \in Shared, Locks(t, s) PROVE mutex' \in [Shared -> Callers \cup {None}]
    BY <1>2 DEF Locks, TypeInv
  <1>3. ASSUME NEW up, Announces(t, up)
        PROVE  /\ being_init' \in [Callers -> BOOLEAN]
               /\ stack' \in [Callers -> Seq(Steps)]
    BY <1>1, <1>3 DEF Announces, TypeInv
  <1>4. CASE QueueShared(t)
    <2>1. PICK s \in Shared : Queues(t, s)
      BY <1>4, QueueEffect
    <2> QED BY <1>1, <1>2, <2>1 DEF TypeInv, Queues, Pops
  <1>5. CASE FlushShared(t)
    <2>1. PICK s \in Shared : Flushes(t, s)
      BY <1>5, FlushEffect
    <2> QED BY <1>1, <1>2, <2>1 DEF TypeInv, Flushes, Pops
  <1>6. CASE CutBlock(t)
    <2>1. PICK s \in Streams : Cuts(t, s)
      BY <1>6, CutEffect
    <2>2. stack' \in [Callers -> Seq(Steps)]
      BY <1>1, <2>1 DEF Cuts
    <2>3. mutex' \in [Shared -> Callers \cup {None}]
      BY <2>1 DEF TypeInv, Cuts
    <2>4. blocks' \in [Streams -> Nat]
      <3>1. /\ blocks \in [Streams -> Nat] /\ blocks[s] + 1 \in Nat
            /\ blocks' \in {blocks, [blocks EXCEPT ![s] = blocks[s] + 1]}
        BY <2>1 DEF TypeInv, Cuts
      <3> QED BY <3>1
    <2>5. empty' \in [Streams -> BOOLEAN]
      <3>1. empty \in [Streams -> BOOLEAN] /\ empty' \in {empty, [empty EXCEPT ![s] = TRUE]}
        BY <2>1 DEF TypeInv, Cuts
      <3> QED BY <3>1
    <2>6. full' \in [Callers -> BOOLEAN]
      BY <2>1 DEF TypeInv, Cuts
    <2> QED BY <2>1, <2>2, <2>3, <2>4, <2>5, <2>6 DEF TypeInv, Cuts
  <1>7. CASE Own(t)
    BY <1>1, <1>7, OwnEffect DEF TypeInv
  <1>8. CASE InitCurrentThreadStream(t)
    BY <1>1, <1>3, <1>8, InitThreadEffect DEF TypeInv
  <1>9. CASE QueueThreadEvent(t)
    BY <1>1, <1>3, <1>9, SpanEffect DEF TypeInv, CutsOwn
  <1>10. CASE MarkStreamsFull(t)
    BY <1>1, <1>10, MarkEffect DEF TypeInv
  <1>11. CASE FlushCurrentThreadStream(t)
    BY <1>1, <1>3, <1>11, FlushThreadEffect DEF TypeInv, CutsOwn
  <1>12. CASE IncrementQueueSize(t)
    <2>1. Metrics \in Shared
      BY StreamKinds
    <2>2. stack' \in [Callers -> Seq(Steps)]
      BY <1>1, <1>12, IncrementEffect DEF Pops
    <2>3. mutex' \in [Shared -> Callers \cup {None}]
      BY <1>2, <1>12, <2>1, IncrementEffect DEF TypeInv, Pops
    <2> QED BY <1>12, <2>2, <2>3, IncrementEffect DEF TypeInv
  <1>13. CASE Enqueue(t)
    <2>1. PICK m \in Messages : Enqueues(t, m)
      BY <1>13, EnqueueEffect
    <2>2. Queue' \in Seq(Messages)
      BY <2>1, AppendProperties DEF TypeInv, Enqueues
    <2> QED BY <1>1, <2>1, <2>2 DEF TypeInv, Enqueues
  <1>14. CASE Trigger(t)
    BY <1>1, <1>14, TriggerEffect DEF TypeInv
  <1> QED BY <1>4, <1>5, <1>6, <1>7, <1>8, <1>9, <1>10, <1>11, <1>12, <1>13, <1>14 DEF Step

LEMMA TypeNext == ASSUME TypeInv, [Next]_vars PROVE TypeInv'
  <1>1. ASSUME NEW t, NEW up, Calls(t, up) PROVE stack' \in [Callers -> Seq(Steps)]
    BY <1>1 DEF Calls, Moves
  <1>2. ASSUME NEW t, NEW up, Starts(t, up) PROVE stack' \in [Callers -> Seq(Steps)]
    BY <1>2 DEF Starts, Moves
  <1>3. CASE \E t \in Callers : Step(t)
    BY <1>3, TypeStep
  <1>4. CASE Drain
    <2>1. /\ Metrics \in Shared /\ Worker \in Callers
          /\ Queue # <<>> => Head(Queue) \in Messages /\ Tail(Queue) \in Seq(Messages)
      BY StreamKinds, HeadTailProperties DEF TypeInv
    <2>2. stack' \in [Callers -> Seq(Steps)]
      BY <1>1, <1>4, DrainEffect
    <2>3. mutex' \in [Shared -> Callers \cup {None}]
      BY <1>4, <2>1, DrainEffect DEF TypeInv, Locks
    <2>4. QueueSize' \in Int
      BY <1>4, DrainEffect DEF TypeInv
    <2>5. Queue' \in Seq(Messages) /\ current' \in Messages \cup {None}
      BY <1>4, <2>1, DrainEffect DEF TypeInv
    <2>6. empty' \in [Streams -> BOOLEAN]
      BY <1>4, DrainEffect DEF TypeInv
    <2> QED BY <1>4, <2>2, <2>3, <2>4, <2>5, <2>6, DrainEffect DEF TypeInv
  <1>5. CASE SendBinaryRequest
    BY <1>1, <1>5, SendEffect DEF TypeInv
  <1>6. CASE CheckShutdown
    BY <1>1, <1>6, CheckEffect DEF TypeInv, Moves
  <1>7. CASE Wait
    BY <1>1, <1>7, WaitEffect DEF TypeInv
  <1>8. CASE DispatchInit
    BY <1>1, <1>8, InitEffect DEF TypeInv
  <1>9. CASE RequestTheShutdown
    BY <1>1, <1>9, RequestEffect DEF TypeInv
  <1>10. CASE WaitForCompletion
    BY <1>1, <1>10, JoinEffect DEF TypeInv
  <1>11. CASE ClearDispatch
    BY <1>1, <1>11, ClearEffect DEF TypeInv
  <1>12. CASE OnFlush \/ UnloadModule
    BY <1>2, <1>12, MainStartEffect DEF TypeInv
  <1>13. ASSUME NEW t \in Threads, NEW s \in Shared \cup {t}, Event(t, s) PROVE TypeInv'
    <2>1. t \in Callers
      BY DEF Callers
    <2> QED BY <1>2, <1>13, <2>1, EventEffect DEF TypeInv
  <1>14. CASE AuthReady \/ OnAuthUpdated
    BY <1>14, AuthEffect DEF TypeInv
  <1>15. CASE FormatRequest
    BY <1>1, <1>15, FormatEffect DEF TypeInv
  <1>16. CASE UNCHANGED vars
    BY <1>16 DEF TypeInv, vars, dispatch, sink, run, env
  <1> QED BY <1>3, <1>4, <1>5, <1>6, <1>7, <1>8, <1>9, <1>10, <1>11, <1>12, <1>13, <1>14,
             <1>15, <1>16
          DEF Next, WorkerStep, MainStep

-----------------------------------------------------------------------------
(***************************************************************************)
(* The shape of the stacks.                                                *)
(***************************************************************************)

(* Where the steps that occur once may be. *)
Placed(t, d, x) ==
    /\ x = Do("wait")     => t = Worker /\ d = 1
    /\ x = Do("check")    => t = Worker /\ d = 2
    /\ x = Do("drain")    => t = Worker /\ d = 3
    /\ x = Do("send")     => t = Worker /\ d = 5
    /\ x = Do("init")     => t = Main /\ d = 1
    /\ x = Do("clear")    => t = Main /\ d = 1
    /\ x = Do("join")     => t = Main /\ d = 2
    /\ x = Do("shutdown") => t = Main /\ d = 4

(* What has to be below x. *)
Based(x, below) ==
    /\ x[1] = "enqueue" => below = Do("trigger")
    /\ x = Do("increment") => below[1] = "enqueue"

(* The worker's stack ends in what is left of an iteration. *)
WorkerBase(q) ==
    /\ Len(q) >= 1 => Frame(q, 1) = Do("wait")
    /\ Len(q) >= 2 => Frame(q, 2) = Do("check")
    /\ Len(q) >= 3 => Frame(q, 3) = Do("drain")

StackOK(t, q) ==
    /\ \A d \in 1 .. Len(q) : Placed(t, d, Frame(q, d))
    /\ \A d \in 2 .. Len(q) : Based(Frame(q, d), Frame(q, d - 1))
    /\ Len(q) >= 1 => Frame(q, 1)[1] # "enqueue" /\ Frame(q, 1) # Do("increment")
    /\ t = Worker => WorkerBase(q)
    /\ Len(q) >= 4 /\ Frame(q, 4) = Do("shutdown") => Frame(q, 1) = Do("clear")

StackInv == \A t \in Callers : StackOK(t, stack[t])

(* The list up may be pushed on the b lowest steps of a stack of t. *)
Fits(t, b, up) ==
    /\ Len(up) \in Nat
    /\ \A k \in 1 .. Len(up) : Placed(t, b + k, up[k])
    /\ \A k \in 2 .. Len(up) : Based(up[k], up[k - 1])
    /\ Len(up) >= 1 => up[1][1] # "enqueue" /\ up[1] # Do("increment")

LEMMA GrownOK ==
  ASSUME NEW t, NEW q, NEW r, NEW b \in 0 .. Len(q), NEW up, Len(q) \in Nat,
         StackOK(t, q), Grown(q, r, b, up), Fits(t, b, up),
         t = Worker => WorkerBase(r),
         Len(r) >= 4 /\ Frame(r, 4) = Do("shutdown") => Frame(r, 1) = Do("clear")
  PROVE  StackOK(t, r)
  <1>1. Len(r) \in Nat /\ Len(r) = b + Len(up) /\ Len(up) \in Nat
    BY DEF Grown, Fits
  <1>2. ASSUME NEW d \in 1 .. Len(r) PROVE Placed(t, d, Frame(r, d))
    <2>1. CASE d <= b
      BY <1>1, <2>1 DEF StackOK, Grown
    <2>2. CASE d > b
      <3>1. d - b \in 1 .. Len(up) /\ b + (d - b) = d /\ d \in b + 1 .. Len(r)
        BY <1>1, <2>2
      <3> QED BY <3>1 DEF Fits, Grown
    <2> QED BY <2>1, <2>2
  <1>3. ASSUME NEW d \in 2 .. Len(r) PROVE Based(Frame(r, d), Frame(r, d - 1))
    <2>1. CASE d <= b
      <3>1. d \in 2 .. Len(q) /\ d \in 1 .. b /\ d - 1 \in 1 .. b
        BY <1>1, <2>1
      <3> QED BY <3>1 DEF StackOK, Grown
    <2>2. CASE d = b + 1
      <3>1. d - b = 1 /\ d \in b + 1 .. Len(r) /\ Len(up) >= 1
        BY <1>1, <2>2
      <3> QED BY <3>1 DEF Fits, Grown, Based
    <2>3. CASE d > b + 1
      <3>1. /\ d - b \in 2 .. Len(up) /\ (d - b) - 1 = (d - 1) - b
            /\ d \in b + 1 .. Len(r) /\ d - 1 \in b + 1 .. Len(r)
        BY <1>1, <2>3
      <3> QED BY <3>1 DEF Fits, Grown
    <2> QED BY <2>1, <2>2, <2>3
  <1>4. ASSUME Len(r) >= 1 PROVE Frame(r, 1)[1] # "enqueue" /\ Frame(r, 1) # Do("increment")
    <2>1. CASE b >= 1
      <3>1. 1 \in 1 .. b /\ Len(q) >= 1
        BY <1>1, <2>1
      <3> QED BY <3>1 DEF StackOK, Grown
    <2>2. CASE b = 0
      <3>1. 1 \in b + 1 .. Len(r) /\ 1 - b = 1 /\ Len(up) >= 1
        BY <1>1, <1>4, <2>2
      <3> QED BY <3>1 DEF Fits, Grown
    <2> QED BY <2>1, <2>2
  <1> QED BY <1>2, <1>3, <1>4 DEF StackOK

Markers == {Do("wait"), Do("check"), Do("drain"), Do("send"), Do("init"), Do("clear"),
            Do("join"), Do("shutdown")}

(* A list that may be pushed at any depth. *)
Plain(up) ==
    /\ Len(up) \in Nat
    /\ \A k \in 1 .. Len(up) : up[k] \notin Markers
    /\ \A k \in 2 .. Len(up) : Based(up[k], up[k - 1])
    /\ Len(up) >= 1 => up[1][1] # "enqueue" /\ up[1] # Do("increment")

LEMMA PlainLists ==
  /\ Plain(<<>>) /\ Plain(<<Do("span")>>) /\ Plain(<<Do("span"), Do("span")>>)
  /\ \A s : Plain(<<With("queue", s)>>)
  /\ \A s : Plain(<<With("cut", s)>>)
  /\ \A s : Plain(FlushUp(s))
  /\ \A m : Plain(BlockUp(m))
  /\ \A t : Plain(AllocUp(t))
  /\ \A t : Plain(AllocThenUp(t, Do("span")))
  /\ \A t : Plain(AllocThenUp(t, With("cut", t)))
  /\ Plain(FlushAllUp)
  /\ Plain(InitUp)
  /\ Plain(FormatUp)
  <1> USE DEF Plain, Markers, Based, Do, With
  <1>1. /\ Plain(<<>>) /\ Plain(<<Do("span")>>) /\ Plain(<<Do("span"), Do("span")>>)
        /\ \A s : Plain(<<With("queue", s)>>)
        /\ \A s : Plain(<<With("cut", s)>>)
    OBVIOUS
  <1>2. ASSUME NEW s PROVE Plain(FlushUp(s))
    BY DEF FlushUp
  <1>3. ASSUME NEW m PROVE Plain(BlockUp(m))
    BY DEF BlockUp
  <1>4. ASSUME NEW t PROVE Plain(AllocUp(t))
    BY DEF AllocUp
  <1>5. ASSUME NEW t PROVE Plain(AllocThenUp(t, Do("span")))
    BY DEF AllocThenUp
  <1>6. ASSUME NEW t PROVE Plain(AllocThenUp(t, With("cut", t)))
    BY DEF AllocThenUp
  <1>7. Plain(FlushAllUp)
    BY DEF FlushAllUp
  <1>8. Plain(InitUp)
    BY DEF InitUp
  <1>9. Plain(FormatUp)
    BY DEF FormatUp
  <1> QED BY <1>1, <1>2, <1>3, <1>4, <1>5, <1>6, <1>7, <1>8, <1>9

LEMMA PlainFits ==
  ASSUME NEW up, Plain(up), NEW t, NEW b \in Nat PROVE Fits(t, b, up)
  BY DEF Plain, Fits, Placed, Markers

LEMMA Lengths ==
  ASSUME TypeInv
  PROVE  \A t \in Callers : Len(stack[t]) \in Nat /\ (stack[t] = <<>> <=> Len(stack[t]) = 0)
  BY LenProperties, EmptySeq DEF TypeInv

LEMMA PlainCallOK ==
  ASSUME TypeInv, StackInv, NEW t \in Callers, NEW up, Plain(up), Calls(t, up),
         \/ up = <<>>
         \/ t # Worker
         \/ Top(t) \notin {Do("wait"), Do("check"), Do("drain")}
  PROVE  StackInv'
  <1> DEFINE q == stack[t]
             r == stack'[t]
             b == Len(stack[t]) - 1
  <1>1. /\ Len(q) \in Nat /\ Len(q) >= 1 /\ b \in 0 .. Len(q) /\ b \in Nat /\ b + 1 = Len(q)
        /\ StackOK(t, q) /\ Grown(q, r, b, up)
    BY Lengths DEF StackInv, Calls, Moves
  <1>2. Top(t) = Frame(q, Len(q))
    BY DEF Top
  <1> HIDE DEF q, r, b
  <1>3. Fits(t, b, up) /\ Len(up) \in Nat /\ Len(r) = b + Len(up)
    BY <1>1, PlainFits DEF Plain, Grown
  <1>4. ASSUME t = Worker PROVE WorkerBase(r)
    <2>1. WorkerBase(q)
      BY <1>1, <1>4 DEF StackOK
    <2>2. CASE up = <<>>
      <3>1. Len(r) = b
        BY <1>1, <1>3, <2>2
      <3> QED BY <1>1, <2>1, <3>1 DEF WorkerBase, Grown
    <2>3. CASE Top(t) \notin {Do("wait"), Do("check"), Do("drain")}
      <3>1. b >= 3
        BY <1>1, <1>2, <2>1, <2>3 DEF WorkerBase
      <3> QED BY <1>1, <1>3, <2>1, <3>1 DEF WorkerBase, Grown
    <2> QED BY <1>4, <2>2, <2>3
  <1>5. ASSUME Len(r) >= 4, Frame(r, 4) = Do("shutdown") PROVE Frame(r, 1) = Do("clear")
    <2>1. CASE b >= 4
      <3>1. Len(q) >= 4 /\ Frame(q, 4) = Frame(r, 4) /\ Frame(q, 1) = Frame(r, 1)
        BY <1>1, <2>1 DEF Grown
      <3> QED BY <1>1, <1>5, <3>1 DEF StackOK
    <2>2. CASE b < 4
      <3>1. 4 - b \in 1 .. Len(up) /\ Frame(r, 4) = up[4 - b]
        BY <1>1, <1>3, <1>5, <2>2 DEF Grown
      <3> QED BY <1>5, <3>1 DEF Plain, Markers
    <2> QED BY <1>1, <2>1, <2>2
  <1>6. StackOK(t, r)
    BY <1>1, <1>3, <1>4, <1>5, GrownOK
  <1> QED BY <1>6 DEF StackInv, Calls, Moves, r

LEMMA PlainStartOK ==
  ASSUME TypeInv, StackInv, NEW t \in Threads, NEW up, Plain(up), Starts(t, up)
  PROVE  StackInv'
  <1> DEFINE q == stack[t]
             r == stack'[t]
  <1>1. /\ t \in Callers /\ t # Worker /\ Len(q) = 0 /\ 0 \in 0 .. Len(q)
        /\ StackOK(t, q) /\ Grown(q, r, 0, up)
    BY Lengths, UnrealAssumption DEF StackInv, Starts, Moves, Callers
  <1> HIDE DEF q, r
  <1>2. Fits(t, 0, up) /\ Len(up) \in Nat /\ Len(r) = Len(up)
    BY <1>1, PlainFits DEF Plain, Grown
  <1>3. ASSUME Len(r) >= 4, Frame(r, 4) = Do("shutdown") PROVE FALSE
    <2>1. 4 \in 1 .. Len(up) /\ Frame(r, 4) = up[4 - 0] /\ 4 - 0 = 4
      BY <1>2, <1>3, <1>1 DEF Grown
    <2> QED BY <1>3, <2>1 DEF Plain, Markers
  <1>4. StackOK(t, r)
    BY <1>1, <1>2, <1>3, GrownOK
  <1> QED BY <1>1, <1>4 DEF StackInv, Starts, Moves, r

(* The lists that have a place of their own. *)
LEMMA SpecialFits ==
  /\ Fits(Worker, 2, SendUp) /\ Fits(Worker, 2, SendMetricUp) /\ Fits(Worker, 2, SendFlushUp)
  /\ Fits(Worker, 0, IterationUp) /\ Fits(Worker, 0, IterationFlushUp)
  /\ Fits(Main, 0, UnloadUp)
  <1> USE DEF Fits, Placed, Based, Do, With
  <1>1. Fits(Worker, 2, SendUp) /\ Fits(Worker, 2, SendMetricUp)
    BY DEF SendUp, SendMetricUp
  <1>2. Fits(Worker, 2, SendFlushUp)
    BY DEF SendFlushUp
  <1>3. Fits(Worker, 0, IterationUp)
    BY DEF IterationUp
  <1>4. Fits(Worker, 0, IterationFlushUp)
    BY DEF IterationFlushUp
  <1>5. Fits(Main, 0, UnloadUp)
    BY DEF UnloadUp
  <1> QED BY <1>1, <1>2, <1>3, <1>4, <1>5

(* Where the steps that occur once are. *)
LEMMA TopDepth ==
  ASSUME TypeInv, StackInv, NEW t \in Callers, stack[t] # <<>>
  PROVE  Placed(t, Len(stack[t]), Top(t))
  <1>1. Len(stack[t]) \in 1 .. Len(stack[t])
    BY Lengths
  <1> QED BY <1>1 DEF StackInv, StackOK, Top

LEMMA SendOK ==
  ASSUME TypeInv, StackInv, Top(Worker) = Do("drain"),
         \/ Calls(Worker, SendUp) \/ Calls(Worker, SendMetricUp) \/ Calls(Worker, SendFlushUp)
  PROVE  /\ StackInv' /\ Len(stack[Worker]) = 3
         /\ Len(stack'[Worker]) >= 6 /\ Frame(stack'[Worker], 5) = Do("send")
  <1> DEFINE q == stack[Worker]
             r == stack'[Worker]
  <1>0. Worker \in Callers /\ q # <<>> /\ Len(q) \in Nat
    BY StreamKinds, Lengths DEF Calls
  <1>1. Len(q) = 3 /\ StackOK(Worker, q)
    BY <1>0, TopDepth DEF Placed, StackInv
  <1>2. ASSUME NEW up, Calls(Worker, up), Fits(Worker, 2, up), up[1] = Do("drain"),
               up[3] = Do("send"), Len(up) >= 4,
               Len(up) >= 2 => up[2] # Do("shutdown")
        PROVE  /\ StackInv'
               /\ Len(stack'[Worker]) >= 6 /\ Frame(stack'[Worker], 5) = Do("send")
    <2>1. Grown(q, r, 2, up) /\ Len(up) \in Nat
      BY <1>1, <1>2 DEF Calls, Moves, Fits
    <2> HIDE DEF q, r
    <2>2. /\ Len(r) = 2 + Len(up) /\ Frame(r, 1) = Frame(q, 1) /\ Frame(r, 2) = Frame(q, 2)
          /\ Frame(r, 3) = up[1] /\ Frame(r, 4) = up[2] /\ Frame(r, 5) = up[3]
      BY <1>2, <2>1 DEF Grown
    <2>3. WorkerBase(r)
      BY <1>1, <1>2, <2>2 DEF WorkerBase, StackOK
    <2>4. 2 \in 0 .. Len(q) /\ Len(q) \in Nat /\ Frame(r, 4) # Do("shutdown")
      BY <1>1, <1>2, <2>2
    <2>5. StackOK(Worker, r)
      BY <1>1, <1>2, <2>1, <2>3, <2>4, GrownOK
    <2> QED BY <1>2, <2>1, <2>2, <2>5 DEF StackInv, Calls, Moves, r
  <1>3. /\ Len(SendUp) >= 4 /\ SendUp[1] = Do("drain") /\ SendUp[3] = Do("send")
        /\ Len(SendMetricUp) >= 4 /\ SendMetricUp[1] = Do("drain") /\ SendMetricUp[3] = Do("send")
        /\ Len(SendFlushUp) >= 4 /\ SendFlushUp[1] = Do("drain") /\ SendFlushUp[3] = Do("send")
        /\ SendUp[2] # Do("shutdown") /\ SendMetricUp[2] # Do("shutdown")
        /\ SendFlushUp[2] # Do("shutdown")
    BY DEF SendUp, SendMetricUp, SendFlushUp, Do
  <1> QED BY <1>1, <1>2, <1>3, SpecialFits

LEMMA WaitOK ==
  ASSUME TypeInv, StackInv, Top(Worker) = Do("wait"),
         Calls(Worker, IterationUp) \/ Calls(Worker, IterationFlushUp)
  PROVE  StackInv' /\ Len(stack[Worker]) = 1 /\ Len(stack'[Worker]) >= 3
  <1> DEFINE q == stack[Worker]
             r == stack'[Worker]
  <1>0. Worker \in Callers /\ q # <<>> /\ Len(q) \in Nat
    BY StreamKinds, Lengths DEF Calls
  <1>1. Len(q) = 1 /\ StackOK(Worker, q)
    BY <1>0, TopDepth DEF Placed, StackInv
  <1>2. ASSUME NEW up, Calls(Worker, up), Fits(Worker, 0, up), up[1] = Do("wait"),
               up[2] = Do("check"), up[3] = Do("drain"), Len(up) >= 3,
               Len(up) >= 4 => up[4] # Do("shutdown")
        PROVE  StackInv' /\ Len(r) >= 3
    <2>1. Grown(q, r, 0, up) /\ Len(up) \in Nat
      BY <1>1, <1>2 DEF Calls, Moves, Fits
    <2> HIDE DEF q, r
    <2>2. /\ Len(r) = Len(up) /\ Frame(r, 1) = up[1] /\ Frame(r, 2) = up[2]
          /\ Frame(r, 3) = up[3] /\ (Len(r) >= 4 => Frame(r, 4) = up[4])
      BY <1>2, <2>1 DEF Grown
    <2>3. WorkerBase(r)
      BY <1>2, <2>2 DEF WorkerBase
    <2>4. 0 \in 0 .. Len(q) /\ Len(q) \in Nat /\ ~(Len(r) >= 4 /\ Frame(r, 4) = Do("shutdown"))
      BY <1>1, <1>2, <2>2
    <2>5. StackOK(Worker, r)
      BY <1>1, <1>2, <2>1, <2>3, <2>4, GrownOK
    <2> QED BY <1>2, <2>1, <2>2, <2>5 DEF StackInv, Calls, Moves, r
  <1>3. /\ Len(IterationUp) = 3 /\ IterationUp[1] = Do("wait") /\ IterationUp[2] = Do("check")
        /\ IterationUp[3] = Do("drain")
        /\ Len(IterationFlushUp) >= 3 /\ IterationFlushUp[1] = Do("wait")
        /\ IterationFlushUp[2] = Do("check") /\ IterationFlushUp[3] = Do("drain")
        /\ IterationFlushUp[4] # Do("shutdown")
    BY DEF IterationUp, IterationFlushUp, Do
  <1>4. CASE Calls(Worker, IterationUp)
    <2>1. Len(IterationUp) >= 3 /\ ~(Len(IterationUp) >= 4)
      BY <1>3
    <2> QED BY <1>1, <1>2, <1>3, <1>4, <2>1, SpecialFits
  <1>5. CASE Calls(Worker, IterationFlushUp)
    BY <1>1, <1>2, <1>3, <1>5, SpecialFits
  <1> QED BY <1>4, <1>5

LEMMA EndOK ==
  ASSUME TypeInv, StackInv, Moves(Worker, 0, <<>>)
  PROVE  StackInv'
  <1>1. Worker \in Callers /\ Len(stack'[Worker]) = 0
    BY StreamKinds DEF Moves, Grown
  <1>2. StackOK(Worker, stack'[Worker])
    BY <1>1 DEF StackOK, WorkerBase
  <1> QED BY <1>2 DEF StackInv, Moves

LEMMA UnloadOK ==
  ASSUME TypeInv, StackInv, Starts(Main, UnloadUp)
  PROVE  StackInv' /\ Len(stack'[Main]) = 9 /\ Frame(stack'[Main], 1) = Do("clear")
  <1> DEFINE q == stack[Main]
             r == stack'[Main]
  <1>1. /\ Main \in Callers /\ Main # Worker /\ Len(q) = 0 /\ 0 \in 0 .. Len(q)
        /\ StackOK(Main, q) /\ Grown(q, r, 0, UnloadUp)
    BY StreamKinds, Lengths DEF StackInv, Starts, Moves
  <1> HIDE DEF q, r
  <1>2. Len(UnloadUp) = 9 /\ UnloadUp[1] = Do("clear")
    BY DEF UnloadUp
  <1>3. Len(r) = 9 /\ Frame(r, 1) = Do("clear")
    BY <1>1, <1>2 DEF Grown
  <1>4. StackOK(Main, r)
    <2>1. Len(q) \in Nat /\ Fits(Main, 0, UnloadUp)
      BY <1>1, SpecialFits
    <2> QED BY <1>1, <1>3, <2>1, GrownOK
  <1> QED BY <1>3, <1>4 DEF StackInv, Starts, Moves, r

LEMMA StackInit == Init => StackInv
  <1> SUFFICES ASSUME Init, NEW t \in Callers PROVE StackOK(t, stack[t])
    BY DEF StackInv
  <1>1. CASE t = Main
    <2>1. stack[t] = <<Do("init")>>
      BY <1>1, StreamKinds DEF Init
    <2>2. Len(stack[t]) = 1 /\ Frame(stack[t], 1) = Do("init")
      BY <2>1 DEF Frame
    <2>3. t # Worker
      BY <1>1, StreamKinds
    <2>4. Placed(t, 1, Do("init")) /\ Do("init")[1] # "enqueue" /\ Do("init") # Do("increment")
      BY <1>1 DEF Placed, Do
    <2> QED BY <2>2, <2>3, <2>4 DEF StackOK
  <1>2. CASE t = Worker
    <2>1. stack[t] = Iteration /\ t # Main
      BY <1>2, StreamKinds DEF Init
    <2>2. /\ Len(stack[t]) = 3 /\ Frame(stack[t], 1) = Do("wait")
          /\ Frame(stack[t], 2) = Do("check") /\ Frame(stack[t], 3) = Do("drain")
      BY <2>1 DEF Frame, Iteration
    <2>3. /\ Placed(t, 1, Do("wait")) /\ Placed(t, 2, Do("check")) /\ Placed(t, 3, Do("drain"))
          /\ Based(Do("check"), Do("wait")) /\ Based(Do("drain"), Do("check"))
          /\ Do("wait")[1] # "enqueue" /\ Do("wait") # Do("increment")
      BY <1>2 DEF Placed, Based, Do
    <2>4. \A d \in 1 .. Len(stack[t]) : Placed(t, d, Frame(stack[t], d))
      BY <2>2, <2>3
    <2>5. \A d \in 2 .. Len(stack[t]) : Based(Frame(stack[t], d), Frame(stack[t], d - 1))
      BY <2>2, <2>3
    <2> QED BY <2>2, <2>3, <2>4, <2>5 DEF StackOK, WorkerBase
  <1>3. CASE t \notin {Main, Worker}
    <2>1. stack[t] = <<>>
      BY <1>3 DEF Init
    <2> QED BY <1>3, <2>1 DEF StackOK, WorkerBase
  <1> QED BY <1>1, <1>2, <1>3

LEMMA PlainStep ==
  ASSUME TypeInv, NEW t \in Callers, Step(t) \/ (t = Worker /\ FormatRequest)
  PROVE  \E up : /\ Plain(up) /\ Calls(t, up)
                 /\ Top(t) \notin Markers
  <1> DEFINE Goal == \E up : /\ Plain(up) /\ Calls(t, up)
                             /\ Top(t) \notin Markers
  <1>0. /\ Do("span") \notin Markers /\ Do("init_thread") \notin Markers
        /\ Do("flush_thread") \notin Markers /\ Do("increment") \notin Markers
        /\ Do("own") \notin Markers /\ Do("mark") \notin Markers /\ Do("trigger") \notin Markers
        /\ Do("format") \notin Markers
        /\ \A s : /\ With("queue", s) \notin Markers /\ With("flush", s) \notin Markers
                  /\ With("cut", s) \notin Markers /\ With("enqueue", s) \notin Markers
    BY DEF Do, With, Markers
  <1>1. Calls(t, <<>>) /\ Top(t) \notin Markers => Goal
    BY PlainLists
  <1>2. CASE QueueShared(t)
    <2>1. PICK s \in Shared : Queues(t, s)
      BY <1>2, QueueEffect
    <2> QED BY <1>0, <1>1, <2>1, PlainLists DEF Queues, Pops
  <1>3. CASE FlushShared(t)
    <2>1. PICK s \in Shared : Flushes(t, s)
      BY <1>3, FlushEffect
    <2> QED BY <1>0, <1>1, <2>1, PlainLists DEF Flushes, Pops
  <1>4. CASE CutBlock(t)
    <2>1. PICK s \in Streams : Cuts(t, s)
      BY <1>4, CutEffect
    <2> QED BY <1>0, <1>1, <2>1, PlainLists DEF Cuts
  <1>5. CASE Own(t) \/ MarkStreamsFull(t) \/ Enqueue(t) \/ Trigger(t)
    BY <1>0, <1>1, <1>5, OwnEffect, MarkEffect, EnqueueEffect, TriggerEffect DEF Enqueues
  <1>6. CASE InitCurrentThreadStream(t)
    BY <1>0, <1>1, <1>6, InitThreadEffect, PlainLists DEF Announces
  <1>7. CASE QueueThreadEvent(t)
    BY <1>0, <1>1, <1>7, SpanEffect, PlainLists DEF Announces, CutsOwn
  <1>8. CASE FlushCurrentThreadStream(t)
    BY <1>0, <1>1, <1>8, FlushThreadEffect, PlainLists DEF Announces, CutsOwn
  <1>9. CASE IncrementQueueSize(t)
    BY <1>0, <1>1, <1>9, IncrementEffect, PlainLists DEF Pops
  <1>10. CASE t = Worker /\ FormatRequest
    BY <1>0, <1>1, <1>10, FormatEffect, PlainLists
  <1> QED BY <1>2, <1>3, <1>4, <1>5, <1>6, <1>7, <1>8, <1>9, <1>10 DEF Step

LEMMA StackNext == ASSUME TypeInv, StackInv, [Next]_vars PROVE StackInv'
  <1>0. Worker \in Callers /\ Main \in Callers /\ Main # Worker /\ Main \in Threads
    BY StreamKinds, UnrealAssumption
  <1>1. ASSUME NEW t \in Callers, Calls(t, <<>>) PROVE StackInv'
    BY <1>1, PlainCallOK, PlainLists
  <1>2. CASE \E t \in Callers : Step(t) \/ (t = Worker /\ FormatRequest)
    <2>1. Do("wait") \in Markers /\ Do("check") \in Markers /\ Do("drain") \in Markers
      BY DEF Markers
    <2> QED BY <1>2, <2>1, PlainStep, PlainCallOK
  <1>3. CASE Drain
    BY <1>0, <1>1, <1>3, DrainEffect, SendOK
  <1>4. CASE SendBinaryRequest
    BY <1>0, <1>1, <1>4, SendEffect
  <1>5. CASE CheckShutdown
    BY <1>0, <1>1, <1>5, CheckEffect, EndOK
  <1>6. CASE Wait
    BY <1>6, WaitEffect, WaitOK
  <1>7. CASE DispatchInit
    BY <1>0, <1>7, InitEffect, PlainCallOK, PlainLists
  <1>8. CASE RequestTheShutdown
    BY <1>0, <1>1, <1>8, RequestEffect
  <1>9. CASE WaitForCompletion
    BY <1>0, <1>1, <1>9, JoinEffect
  <1>10. CASE ClearDispatch
    BY <1>0, <1>1, <1>10, ClearEffect
  <1>11. CASE OnFlush \/ UnloadModule
    BY <1>0, <1>11, MainStartEffect, PlainStartOK, PlainLists, UnloadOK
  <1>12. ASSUME NEW t \in Threads, NEW s \in Shared \cup {t}, Event(t, s) PROVE StackInv'
    <2>1. t \in Callers
      BY DEF Callers
    <2> QED BY <1>12, <2>1, EventEffect, PlainStartOK, PlainLists
  <1>13. CASE AuthReady \/ OnAuthUpdated \/ UNCHANGED vars
    BY <1>13, AuthEffect DEF StackInv, vars
  <1> QED BY <1>0, <1>2, <1>3, <1>4, <1>5, <1>6, <1>7, <1>8, <1>9, <1>10, <1>11, <1>12, <1>13
          DEF Next, WorkerStep, MainStep

(***************************************************************************)
(* Most steps leave the marks alone.                                       *)
(***************************************************************************)

Has(q, d, x) == d \in 1 .. Len(q) /\ Frame(q, d) = x

MarksKept ==
    /\ stack' \in [Callers -> Seq(Steps)]
    /\ \A u \in Callers, x \in Markers, d \in Nat : Has(stack'[u], d, x) <=> Has(stack[u], d, x)
    /\ \/ stack'[Worker] = stack[Worker]
       \/ Height(stack[Worker]) >= 3 /\ Height(stack'[Worker]) >= 3

LEMMA Below ==
  ASSUME TypeInv, NEW t \in Callers, NEW up, Calls(t, up), NEW d \in Nat, NEW x
  PROVE  /\ Has(stack[t], d, x) /\ Top(t) # x => Has(stack'[t], d, x)
         /\ Has(stack[t], d, x) /\ d < Len(stack[t]) => Has(stack'[t], d, x)
         /\ Has(stack'[t], d, x) /\ d < Len(stack[t]) => Has(stack[t], d, x)
         /\ Has(stack'[t], d, x) /\ d >= Len(stack[t]) =>
               d - (Len(stack[t]) - 1) \in 1 .. Len(up) /\ up[d - (Len(stack[t]) - 1)] = x
  <1> DEFINE q == stack[t]
             r == stack'[t]
             b == Len(stack[t]) - 1
  <1>1. Len(q) \in Nat /\ Len(q) >= 1 /\ b \in Nat /\ b + 1 = Len(q) /\ Grown(q, r, b, up)
    BY Lengths DEF Calls, Moves
  <1>2. Len(r) \in Nat /\ Top(t) = Frame(q, Len(q))
    BY LenProperties DEF Calls, Moves, Top
  <1> SUFFICES /\ Has(q, d, x) /\ Top(t) # x => Has(r, d, x)
               /\ Has(q, d, x) /\ d < Len(q) => Has(r, d, x)
               /\ Has(r, d, x) /\ d < Len(q) => Has(q, d, x)
               /\ Has(r, d, x) /\ d >= Len(q) => d - b \in 1 .. Len(up) /\ up[d - b] = x
    OBVIOUS
  <1> HIDE DEF q, r, b
  <1>3. Len(up) = Len(r) - b /\ Len(up) \in Nat /\ Len(r) >= b
    BY <1>1, <1>2 DEF Grown
  <1> QED BY <1>1, <1>2, <1>3 DEF Has, Grown

LEMMA PlainKeeps ==
  ASSUME TypeInv, StackInv, NEW t \in Callers, Step(t) \/ (t = Worker /\ FormatRequest)
  PROVE  MarksKept
  <1>1. PICK up : Plain(up) /\ Calls(t, up) /\ Top(t) \notin Markers
    BY PlainStep
  <1>2. ASSUME NEW x \in Markers, NEW d \in Nat
        PROVE  Has(stack'[t], d, x) <=> Has(stack[t], d, x)
    <2>1. Top(t) # x /\ Len(stack[t]) \in Nat
      BY <1>1, Lengths
    <2> DEFINE b == Len(stack[t]) - 1
    <2>2. /\ Has(stack[t], d, x) /\ Top(t) # x => Has(stack'[t], d, x)
          /\ Has(stack'[t], d, x) /\ d < Len(stack[t]) => Has(stack[t], d, x)
          /\ Has(stack'[t], d, x) /\ d >= Len(stack[t]) => d - b \in 1 .. Len(up) /\ up[d - b] = x
      BY <1>1, Below
    <2>3. \A k \in 1 .. Len(up) : up[k] # x
      BY <1>1 DEF Plain
    <2> HIDE DEF b
    <2> QED BY <2>1, <2>2, <2>3
  <1>3. /\ \A u \in Callers : u # t => stack'[u] = stack[u]
        /\ stack' \in [Callers -> Seq(Steps)]
    BY <1>1 DEF Calls, Moves
  <1>4. CASE t # Worker
    BY <1>2, <1>3, <1>4, StreamKinds DEF MarksKept
  <1>5. CASE t = Worker
    <2> DEFINE n == Height(stack[Worker])
               k == Height(stack'[Worker])
    <2>0. n = Len(stack[Worker]) /\ k = Len(stack'[Worker])
      BY HeightIs
    <2>1. n \in Nat /\ n >= 1 /\ Top(Worker) = Frame(stack[Worker], n) /\ Worker \in Callers
      BY <1>1, <1>5, <2>0, Lengths, StreamKinds DEF Calls, Top
    <2>2. n > 3
      <3>1. WorkerBase(stack[Worker])
        BY <2>1 DEF StackInv, StackOK
      <3>2. Do("wait") \in Markers /\ Do("check") \in Markers /\ Do("drain") \in Markers
        BY DEF Markers
      <3> QED BY <1>1, <1>5, <2>0, <2>1, <3>1, <3>2 DEF WorkerBase
    <2>3. k = n - 1 + Len(up) /\ Len(up) \in Nat
      BY <1>1, <1>5, <2>0 DEF Calls, Moves, Grown
    <2>4. k >= 3
      BY <2>1, <2>2, <2>3
    <2> QED BY <1>2, <1>3, <1>5, <2>1, <2>2, <2>4 DEF MarksKept
  <1> QED BY <1>4, <1>5

LEMMA StartKeeps ==
  ASSUME TypeInv, NEW t \in Threads, NEW up, Plain(up), Starts(t, up)
  PROVE  MarksKept
  <1>1. t \in Callers /\ t # Worker /\ Worker \in Callers
    BY UnrealAssumption DEF Callers
  <1>2. ASSUME NEW x \in Markers, NEW d \in Nat
        PROVE  ~Has(stack'[t], d, x) /\ ~Has(stack[t], d, x)
    <2>1. Len(stack[t]) = 0 /\ Grown(stack[t], stack'[t], 0, up)
      BY <1>1, Lengths DEF Starts, Moves
    <2>2. ASSUME d \in 1 .. Len(stack'[t]) PROVE Frame(stack'[t], d) # x
      <3>1. d \in 1 .. Len(up) /\ Frame(stack'[t], d) = up[d - 0] /\ d - 0 = d
        BY <2>1, <2>2 DEF Grown
      <3> QED BY <3>1 DEF Plain
    <2> QED BY <2>1, <2>2 DEF Has
  <1>3. /\ \A u \in Callers : u # t => stack'[u] = stack[u]
        /\ stack' \in [Callers -> Seq(Steps)]
    BY DEF Starts, Moves
  <1> QED BY <1>1, <1>2, <1>3 DEF MarksKept

-----------------------------------------------------------------------------
(***************************************************************************)
(* The shutdown.                                                           *)
(***************************************************************************)

Queued(m) == \E i \in DOMAIN Queue : Queue[i] = m

(* What is owed is on its way, and is done with once the worker has looked *)
(* for a request; there is one request at most.                            *)
ShutdownInv ==
    /\ current # None => Has(stack[Worker], 5, Do("send"))
    /\ \A m \in owed : m \in handled \/ (m = current /\ current # None) \/ Queued(m)
    /\ RequestShutdown => GDispatch = "null" \/ Has(stack[Main], 1, Do("clear"))
    /\ Has(stack[Main], 4, Do("shutdown")) => ~RequestShutdown
    /\ Has(stack[Main], 1, Do("init")) => GDispatch = "unset"
    /\ stack[Worker] = <<>> => RequestShutdown
    /\ owed # {} => RequestShutdown /\ ready # "no"
    /\ Height(stack[Worker]) \in {0, 2} => owed \subseteq handled

LEMMA NoneIsNoMessage == None \notin Messages
  BY UnrealAssumption

LEMMA TopAt ==
  ASSUME TypeInv, NEW t \in Callers, stack[t] # <<>>, NEW op, Top(t)[1] = op
  PROVE  At(t, op)
  <1>1. Len(stack[t]) \in Nat \ {0} /\ Head(stack[t]) = stack[t][1]
    BY HeadTailProperties, LenProperties DEF TypeInv
  <1>2. Len(stack[t]) + 1 - Len(stack[t]) = 1
    BY <1>1
  <1> QED BY <1>1, <1>2 DEF At, Top, Frame

LEMMA ShutdownInit == Init => ShutdownInv
  <1> SUFFICES ASSUME Init PROVE ShutdownInv
    OBVIOUS
  <1>1. stack[Worker] = Iteration /\ stack[Main] = <<Do("init")>>
    BY StreamKinds DEF Init
  <1>2. stack[Worker] # <<>> /\ Height(stack[Worker]) = 3
    BY <1>1 DEF Iteration, Height
  <1>3. ~Has(stack[Main], 4, Do("shutdown"))
    BY <1>1 DEF Has
  <1>4. /\ current = None /\ owed = {} /\ RequestShutdown = FALSE /\ GDispatch = "unset"
    BY DEF Init
  <1> QED BY <1>2, <1>3, <1>4 DEF ShutdownInv

LEMMA ShutdownKept ==
  ASSUME TypeInv, ShutdownInv, MarksKept,
         \A m : Queued(m) => Queued(m)',
         UNCHANGED <<GDispatch, RequestShutdown, current, handled, ready, owed>>
  PROVE  ShutdownInv'
  <1>1. /\ Do("send") \in Markers /\ Do("clear") \in Markers /\ Do("shutdown") \in Markers
        /\ Do("init") \in Markers
    BY DEF Markers
  <1>2. /\ Has(stack'[Worker], 5, Do("send")) <=> Has(stack[Worker], 5, Do("send"))
        /\ Has(stack'[Main], 1, Do("clear")) <=> Has(stack[Main], 1, Do("clear"))
        /\ Has(stack'[Main], 4, Do("shutdown")) <=> Has(stack[Main], 4, Do("shutdown"))
        /\ Has(stack'[Main], 1, Do("init")) <=> Has(stack[Main], 1, Do("init"))
    BY <1>1, StreamKinds DEF MarksKept
  <1>3. /\ stack'[Worker] = <<>> => stack[Worker] = <<>>
        /\ Height(stack'[Worker]) \in {0, 2} => Height(stack[Worker]) \in {0, 2}
    <2>1. CASE stack'[Worker] = stack[Worker]
      BY <2>1
    <2>2. CASE Height(stack'[Worker]) >= 3
      <3>1. stack'[Worker] # <<>>
        BY <2>2, HeightIs
      <3> QED BY <2>2, <3>1
    <2> QED BY <2>1, <2>2 DEF MarksKept
  <1> QED BY <1>2, <1>3 DEF ShutdownInv

LEMMA ShutdownStep ==
  ASSUME TypeInv, StackInv, ShutdownInv, NEW t \in Callers, Step(t)
  PROVE  ShutdownInv'
  <1>1. MarksKept
    BY PlainKeeps
  <1>2. CASE Enqueue(t)
    <2>1. PICK m \in Messages : Enqueues(t, m)
      BY <1>2, EnqueueEffect
    <2>2. ASSUME NEW n, Queued(n) PROVE Queued(n)'
      <3>1. PICK i \in DOMAIN Queue : Queue[i] = n
        BY <2>2 DEF Queued
      <3>2. i \in DOMAIN Queue' /\ Queue'[i] = n
        BY <2>1, <3>1, AppendProperties DEF TypeInv, Enqueues
      <3> QED BY <3>2 DEF Queued
    <2> QED BY <1>1, <2>1, <2>2, ShutdownKept DEF Enqueues
  <1>3. CASE ~Enqueue(t)
    <2>1. UNCHANGED <<GDispatch, RequestShutdown, current, handled, ready, owed, Queue>>
      BY <1>3, QueueEffect, FlushEffect, CutEffect, OwnEffect, InitThreadEffect, SpanEffect,
         MarkEffect, FlushThreadEffect, IncrementEffect, TriggerEffect
         DEF Step, Queues, Flushes, Cuts
    <2> QED BY <1>1, <2>1, ShutdownKept DEF Queued
  <1> QED BY <1>2, <1>3

(* How high the stacks are when a step that occurs once is next. *)
LEMMA Levels ==
  ASSUME TypeInv, StackInv
  PROVE  /\ \A t \in Callers : Height(stack[t]) \in Nat
         /\ \A t \in Callers : stack[t] # <<>> =>
              Height(stack[t]) >= 1 /\ Placed(t, Height(stack[t]), Top(t))
         /\ \A t \in Callers : stack[t] = <<>> => Height(stack[t]) = 0
         /\ \A t \in Callers : Height(stack[t]) = 0 => stack[t] = <<>>
         /\ \A t \in Callers, d \in Nat : \A x : Has(stack[t], d, x) => d \in 1 .. Height(stack[t])
  BY HeightIs, Lengths, TopDepth DEF Has

LEMMA Popped ==
  ASSUME TypeInv, NEW t \in Callers, Calls(t, <<>>)
  PROVE  /\ Height(stack'[t]) = Height(stack[t]) - 1
         /\ \A d \in Nat : \A x : Has(stack'[t], d, x) <=>
               Has(stack[t], d, x) /\ d < Height(stack[t])
  <1>1. Len(stack'[t]) = Len(stack[t]) - 1
    BY Lengths DEF Calls, Moves, Grown
  <1>2. ASSUME NEW d \in Nat, NEW x
        PROVE  Has(stack'[t], d, x) <=> Has(stack[t], d, x) /\ d < Len(stack[t])
    <2>1. /\ Has(stack[t], d, x) /\ d < Len(stack[t]) => Has(stack'[t], d, x)
          /\ Has(stack'[t], d, x) /\ d < Len(stack[t]) => Has(stack[t], d, x)
      BY Below
    <2>2. Has(stack'[t], d, x) => d < Len(stack[t])
      BY <1>1, Lengths DEF Has
    <2> QED BY <2>1, <2>2
  <1> QED BY <1>1, <1>2, HeightIs

LEMMA ShutdownWorker ==
  ASSUME TypeInv, StackInv, ShutdownInv, WorkerStep \/ Wait
  PROVE  ShutdownInv'
  <1>0. Worker \in Callers /\ Main \in Callers /\ Main # Worker
    BY StreamKinds
  <1> DEFINE h == Height(stack[Worker])
  <1>1. h \in Nat /\ (h < 5 => current = None)
    <2>1. h \in Nat
      BY <1>0, Levels
    <2>2. Has(stack[Worker], 5, Do("send")) => 5 \in 1 .. h
      BY <1>0, Levels
    <2> QED BY <2>1, <2>2 DEF ShutdownInv
  <1>2. ASSUME \/ \E up : Calls(Worker, up)
               \/ Moves(Worker, 0, <<>>)
        PROVE  stack'[Main] = stack[Main]
    BY <1>0, <1>2 DEF Calls, Moves
  <1>3. CASE Drain
    <2>1. h = 3
      BY <1>0, <1>3, DrainEffect, Levels DEF Placed, Calls
    <2>2. CASE /\ ready = "no" \/ Queue = <<>>
               /\ Calls(Worker, <<>>) /\ UNCHANGED <<Queue, current>>
      <3>1. Height(stack'[Worker]) = 2 /\ stack'[Worker] # <<>>
        BY <1>0, <2>1, <2>2, Popped, HeightIs
      <3>2. owed \subseteq handled
        BY <1>1, <2>1, <2>2 DEF ShutdownInv, Queued
      <3> QED BY <1>1, <1>2, <1>3, <2>1, <2>2, <3>1, <3>2, DrainEffect DEF ShutdownInv
    <2>3. CASE /\ Queue # <<>> /\ current' = Head(Queue) /\ Queue' = Tail(Queue)
               /\ \/ Calls(Worker, SendUp) \/ Calls(Worker, SendMetricUp)
                  \/ Calls(Worker, SendFlushUp)
      <3>1. Len(stack'[Worker]) >= 6 /\ Frame(stack'[Worker], 5) = Do("send")
        BY <1>3, <2>3, DrainEffect, SendOK
      <3>2. Len(stack'[Worker]) \in Nat
        BY <1>0, <2>3, LenProperties DEF Calls, Moves
      <3>3. /\ Has(stack'[Worker], 5, Do("send")) /\ stack'[Worker] # <<>>
            /\ Height(stack'[Worker]) >= 6
        BY <3>1, <3>2, HeightIs DEF Has
      <3>4. Head(Queue) # None
        BY <2>3, NoneIsNoMessage, HeadTailProperties DEF TypeInv
      <3>5. ASSUME NEW m, Queued(m) PROVE m = current' \/ Queued(m)'
        <4>1. PICK i \in DOMAIN Queue : Queue[i] = m
          BY <3>5 DEF Queued
        <4>2. /\ Queue \in Seq(Messages) /\ Len(Queue) \in Nat /\ Head(Queue) = Queue[1]
              /\ DOMAIN Queue = 1 .. Len(Queue) /\ DOMAIN Queue' = 1 .. Len(Queue) - 1
              /\ \A j \in 1 .. Len(Queue) - 1 : Queue'[j] = Queue[j + 1]
          BY <2>3, HeadTailProperties, LenProperties DEF TypeInv
        <4>3. CASE i = 1
          BY <2>3, <4>1, <4>2, <4>3
        <4>4. CASE i # 1
          <5>1. i - 1 \in DOMAIN Queue' /\ Queue'[i - 1] = m
            BY <4>1, <4>2, <4>4
          <5> QED BY <5>1 DEF Queued
        <4> QED BY <4>3, <4>4
      <3>6. stack'[Main] = stack[Main]
        BY <1>2, <2>3
      <3>7. /\ UNCHANGED <<GDispatch, RequestShutdown, ready, handled, owed>>
        BY <1>3, DrainEffect
      <3>8. \A m \in owed : m \in handled \/ Queued(m)
        BY <1>1, <2>1 DEF ShutdownInv
      <3> QED BY <2>3, <3>3, <3>4, <3>5, <3>6, <3>7, <3>8 DEF ShutdownInv
    <2> QED BY <1>3, <2>2, <2>3, DrainEffect
  <1>4. CASE SendBinaryRequest
    <2>1. h = 5
      BY <1>0, <1>4, SendEffect, Levels DEF Placed, Calls
    <2>2. Height(stack'[Worker]) = 4 /\ stack'[Worker] # <<>>
      BY <1>0, <1>4, <2>1, SendEffect, Popped, HeightIs
    <2>3. /\ UNCHANGED <<GDispatch, RequestShutdown, ready, owed, Queue>> /\ current' = None
          /\ handled' = handled \cup {current} /\ stack'[Main] = stack[Main]
      BY <1>2, <1>4, SendEffect
    <2> QED BY <2>2, <2>3 DEF ShutdownInv, Queued
  <1>5. CASE CheckShutdown
    <2>1. h = 2
      BY <1>0, <1>5, CheckEffect, Levels DEF Placed, Calls
    <2>2. /\ UNCHANGED <<GDispatch, RequestShutdown, ready, owed, handled, current, Queue>>
          /\ stack'[Main] = stack[Main]
      BY <1>2, <1>5, CheckEffect
    <2>3. stack'[Worker] = <<>> => RequestShutdown
      <3>1. ~RequestShutdown => Height(stack'[Worker]) = 1
        BY <1>0, <1>5, <2>1, CheckEffect, Popped
      <3> QED BY <3>1, HeightIs
    <2> QED BY <1>1, <2>1, <2>2, <2>3 DEF ShutdownInv, Queued
  <1>6. CASE Wait
    <2>1. h = 1 /\ Height(stack'[Worker]) >= 3 /\ stack'[Worker] # <<>>
      <3>1. Len(stack[Worker]) = 1 /\ Len(stack'[Worker]) >= 3
        BY <1>6, WaitEffect, WaitOK
      <3>2. stack'[Worker] # <<>>
        BY <3>1
      <3>3. h = Len(stack[Worker]) /\ Height(stack'[Worker]) = Len(stack'[Worker])
        BY HeightIs
      <3> QED BY <3>1, <3>2, <3>3
    <2>2. /\ UNCHANGED <<GDispatch, RequestShutdown, ready, owed, handled, current, Queue>>
          /\ stack'[Main] = stack[Main]
      BY <1>2, <1>6, WaitEffect
    <2> QED BY <1>1, <2>1, <2>2 DEF ShutdownInv, Queued
  <1>7. CASE FormatRequest
    <2>1. MarksKept
      BY <1>0, <1>7, PlainKeeps
    <2> QED BY <1>7, <2>1, FormatEffect, ShutdownKept DEF Queued
  <1> QED BY <1>3, <1>4, <1>5, <1>6, <1>7 DEF WorkerStep

LEMMA ShutdownMain ==
  ASSUME TypeInv, StackInv, ShutdownInv, MainStep
  PROVE  ShutdownInv'
  <1>0. Worker \in Callers /\ Main \in Callers /\ Main # Worker
    BY StreamKinds
  <1> DEFINE h == Height(stack[Main])
  <1>1. ASSUME NEW up, Calls(Main, up) PROVE stack'[Worker] = stack[Worker] /\ stack[Main] # <<>>
    BY <1>0, <1>1 DEF Calls, Moves
  <1>2. ASSUME stack[Main] # <<>> PROVE Has(stack[Main], h, Top(Main)) /\ h \in Nat
    BY <1>0, <1>2, HeightIs, Lengths DEF Has, Top
  <1>3. /\ Do("init") # Do("clear") /\ Do("init") # Do("shutdown")
    BY DEF Do
  <1>4. \A d \in Nat : \A x, y : Has(stack[Main], d, x) /\ Has(stack[Main], d, y) => x = y
    BY DEF Has
  <1>5. CASE DispatchInit
    <2>1. /\ Calls(Main, InitUp) /\ Top(Main) = Do("init") /\ GDispatch' = "set"
          /\ UNCHANGED <<RequestShutdown, ready, owed, handled, current, Queue>>
      BY <1>5, InitEffect
    <2>2. h = 1 /\ Has(stack[Main], 1, Do("init"))
      BY <1>0, <1>1, <1>2, <2>1, Levels DEF Placed
    <2>3. ~RequestShutdown
      BY <1>3, <1>4, <2>2 DEF ShutdownInv
    <2>4. ~Has(stack'[Main], 4, Do("shutdown")) /\ ~Has(stack'[Main], 1, Do("init"))
      <3>1. \A k \in 1 .. Len(InitUp) : InitUp[k] # Do("init") /\ InitUp[k] # Do("shutdown")
        BY PlainLists DEF Plain, Markers
      <3>2. Len(stack[Main]) = 1
        BY <2>2, HeightIs
      <3>3. ASSUME NEW d \in Nat, d >= 1, NEW x, Has(stack'[Main], d, x)
            PROVE  \E k \in 1 .. Len(InitUp) : InitUp[k] = x
        <4>1. d - (Len(stack[Main]) - 1) \in 1 .. Len(InitUp)
              /\ InitUp[d - (Len(stack[Main]) - 1)] = x
          BY <1>0, <2>1, <3>2, <3>3, Below
        <4> QED BY <4>1
      <3> QED BY <3>1, <3>3
    <2>5. stack'[Worker] = stack[Worker]
      BY <1>1, <2>1
    <2> QED BY <2>1, <2>3, <2>4, <2>5 DEF ShutdownInv, Queued
  <1>6. CASE RequestTheShutdown
    <2>1. /\ Calls(Main, <<>>) /\ Top(Main) = Do("shutdown") /\ RequestShutdown' = TRUE
          /\ UNCHANGED <<GDispatch, ready, handled, current, Queue>>
          /\ owed' = IF ready # "no" /\ ~At(Worker, "check")
                     THEN {Queue[i] : i \in DOMAIN Queue} ELSE {}
      BY <1>6, RequestEffect
    <2>2. h = 4 /\ Has(stack[Main], 4, Do("shutdown"))
      BY <1>0, <1>1, <1>2, <2>1, Levels DEF Placed
    <2>3. Has(stack[Main], 1, Do("clear"))
      <3>1. Len(stack[Main]) = 4 /\ Frame(stack[Main], 4) = Do("shutdown")
        BY <2>2, HeightIs DEF Has
      <3>2. Frame(stack[Main], 1) = Do("clear")
        BY <1>0, <3>1 DEF StackInv, StackOK
      <3> QED BY <3>1, <3>2 DEF Has
    <2>4. /\ Has(stack'[Main], 1, Do("clear")) /\ ~Has(stack'[Main], 4, Do("shutdown"))
          /\ ~Has(stack'[Main], 1, Do("init"))
      BY <1>0, <1>3, <1>4, <2>1, <2>2, <2>3, Popped
    <2>5. stack'[Worker] = stack[Worker] /\ stack[Worker] # <<>>
      BY <1>1, <2>1, <2>2 DEF ShutdownInv
    <2>6. Height(stack[Worker]) \in {0, 2} => owed' = {}
      <3>1. ASSUME Height(stack[Worker]) = 2 PROVE At(Worker, "check")
        <4>1. Len(stack[Worker]) >= 2 /\ Top(Worker) = Frame(stack[Worker], 2)
          BY <3>1, HeightIs DEF Top
        <4>2. Top(Worker) = Do("check")
          BY <1>0, <4>1 DEF StackInv, StackOK, WorkerBase
        <4>3. Top(Worker)[1] = "check"
          BY <4>2 DEF Do
        <4> QED BY <1>0, <2>5, <4>3, TopAt
      <3> QED BY <1>0, <2>1, <2>5, <3>1, Levels
    <2>7. \A m \in owed' : Queued(m)
      BY <2>1 DEF Queued
    <2> QED BY <2>1, <2>4, <2>5, <2>6, <2>7 DEF ShutdownInv, Queued
  <1>7. CASE WaitForCompletion
    <2>1. /\ Calls(Main, <<>>) /\ Top(Main) = Do("join")
          /\ UNCHANGED <<GDispatch, RequestShutdown, ready, owed, handled, current, Queue>>
      BY <1>7, JoinEffect
    <2>2. h = 2
      BY <1>0, <1>1, <2>1, Levels DEF Placed
    <2>3. /\ Has(stack'[Main], 1, Do("clear")) <=> Has(stack[Main], 1, Do("clear"))
          /\ Has(stack'[Main], 1, Do("init")) <=> Has(stack[Main], 1, Do("init"))
          /\ ~Has(stack'[Main], 4, Do("shutdown"))
      <3>1. \A d \in Nat : \A x : Has(stack'[Main], d, x) <=> Has(stack[Main], d, x) /\ d < h
        BY <1>0, <2>1, Popped
      <3> HIDE DEF h
      <3> QED BY <2>2, <3>1
    <2>4. stack'[Worker] = stack[Worker]
      BY <1>1, <2>1
    <2> QED BY <2>1, <2>3, <2>4 DEF ShutdownInv, Queued
  <1>8. CASE ClearDispatch
    <2>1. /\ Calls(Main, <<>>) /\ Top(Main) = Do("clear") /\ GDispatch' = "null"
          /\ UNCHANGED <<RequestShutdown, ready, owed, handled, current, Queue>>
      BY <1>8, ClearEffect
    <2>2. h = 1
      BY <1>0, <1>1, <2>1, Levels DEF Placed
    <2>3. ~Has(stack'[Main], 4, Do("shutdown")) /\ ~Has(stack'[Main], 1, Do("init"))
      <3>1. \A d \in Nat : \A x : Has(stack'[Main], d, x) <=> Has(stack[Main], d, x) /\ d < h
        BY <1>0, <2>1, Popped
      <3> HIDE DEF h
      <3> QED BY <2>2, <3>1
    <2>4. stack'[Worker] = stack[Worker]
      BY <1>1, <2>1
    <2> QED BY <2>1, <2>3, <2>4 DEF ShutdownInv, Queued
  <1> QED BY <1>5, <1>6, <1>7, <1>8 DEF MainStep

LEMMA ShutdownNext ==
  ASSUME TypeInv, StackInv, ShutdownInv, [Next]_vars PROVE ShutdownInv'
  <1>1. CASE \E t \in Callers : Step(t)
    BY <1>1, ShutdownStep
  <1>2. CASE WorkerStep \/ Wait
    BY <1>2, ShutdownWorker
  <1>3. CASE MainStep
    BY <1>3, ShutdownMain
  <1>4. ASSUME NEW t \in Threads, NEW s \in Shared \cup {t}, Event(t, s) PROVE ShutdownInv'
    <2>1. t \in Callers
      BY DEF Callers
    <2>2. MarksKept
      BY <1>4, <2>1, EventEffect, StartKeeps, PlainLists
    <2>3. UNCHANGED <<GDispatch, RequestShutdown, current, handled, ready, owed, Queue>>
      BY <1>4, <2>1, EventEffect
    <2> QED BY <2>2, <2>3, ShutdownKept DEF Queued
  <1>5. CASE OnFlush \/ UnloadModule
    <2>0. Main \in Threads /\ Main \in Callers /\ Main # Worker /\ Worker \in Callers
      BY StreamKinds, UnrealAssumption
    <2>1. /\ UNCHANGED <<GDispatch, RequestShutdown, current, handled, ready, owed, Queue>>
          /\ GDispatch = "set"
      BY <1>5, MainStartEffect
    <2>2. CASE Starts(Main, FlushAllUp)
      BY <2>0, <2>1, <2>2, StartKeeps, PlainLists, ShutdownKept DEF Queued
    <2>3. CASE Starts(Main, UnloadUp)
      <3>1. ~RequestShutdown
        BY <2>0, <2>1, <2>3, Levels DEF ShutdownInv, Has, Starts
      <3>2. ~Has(stack'[Main], 1, Do("init"))
        BY <2>3, UnloadOK DEF Has, Do
      <3>3. stack'[Worker] = stack[Worker]
        BY <2>0, <2>3 DEF Starts, Moves
      <3> QED BY <2>1, <3>1, <3>2, <3>3 DEF ShutdownInv, Queued
    <2> QED BY <1>5, <2>2, <2>3, MainStartEffect
  <1>6. CASE AuthReady \/ OnAuthUpdated
    <2>1. /\ UNCHANGED <<GDispatch, RequestShutdown, current, handled, owed, Queue, stack>>
          /\ ready' # "no"
      BY <1>6, AuthEffect
    <2> QED BY <2>1 DEF ShutdownInv, Queued
  <1>7. CASE UNCHANGED vars
    BY <1>7 DEF ShutdownInv, Queued, vars, dispatch, sink, run, env
  <1> QED BY <1>1, <1>2, <1>3, <1>4, <1>5, <1>6, <1>7 DEF Next

(***************************************************************************)
(* The destructor of the sink joins the worker, and what was queued before *)
(* the shutdown was requested has been handled by then, for any number of  *)
(* threads, blocks and flushes.                                            *)
(***************************************************************************)
THEOREM ShutdownDrainsHolds == Spec => []ShutdownDrains
  <1>1. Init => TypeInv /\ StackInv /\ ShutdownInv
    BY TypeInit, StackInit, ShutdownInit
  <1>2. TypeInv /\ StackInv /\ ShutdownInv /\ [Next]_vars => (TypeInv /\ StackInv /\ ShutdownInv)'
    BY TypeNext, StackNext, ShutdownNext
  <1>3. TypeInv /\ StackInv /\ ShutdownInv => ShutdownDrains
    BY StreamKinds, Levels DEF ShutdownInv, ShutdownDrains
  <1> QED BY <1>1, <1>2, <1>3, PTL DEF Spec

-----------------------------------------------------------------------------
(***************************************************************************)
(* What a step makes of a stack, depth by depth.                           *)
(***************************************************************************)

(* The steps of t from depth n up are replaced by up. *)
Replaced(t, n, up) ==
    /\ n \in Nat /\ n >= 1
    /\ \A d \in Nat : \A x : d < n => (Has(stack'[t], d, x) <=> Has(stack[t], d, x))
    /\ \A d \in Nat : \A x : d >= n =>
          (Has(stack'[t], d, x) <=> d - (n - 1) \in 1 .. Len(up) /\ up[d - (n - 1)] = x)
    /\ \A u \in Callers : u # t => stack'[u] = stack[u]

(* The stack of t ends at depth n. *)
Topped(t, n) ==
    /\ n \in Nat /\ n >= 1
    /\ \A d \in Nat : \A x : Has(stack[t], d, x) => d >= 1 /\ d <= n
    /\ \A x : Has(stack[t], n, x) <=> x = Top(t)

LEMMA MoveReplaces ==
  ASSUME TypeInv, NEW t \in Callers, NEW up, NEW b \in Nat, b <= Len(stack[t]), Moves(t, b, up)
  PROVE  Replaced(t, b + 1, up)
  <1> DEFINE q == stack[t]
             r == stack'[t]
             n == b + 1
  <1>1. Grown(q, r, b, up) /\ Len(q) \in Nat /\ b <= Len(q) /\ n = b + 1 /\ n - 1 = b
    BY Lengths DEF Moves
  <1>2. \A u \in Callers : u # t => stack'[u] = stack[u]
    BY DEF Moves
  <1> SUFFICES /\ \A d \in Nat : \A x : d < n => (Has(r, d, x) <=> Has(q, d, x))
               /\ \A d \in Nat : \A x : d >= n =>
                     (Has(r, d, x) <=> d - b \in 1 .. Len(up) /\ up[d - b] = x)
    BY <1>1, <1>2 DEF Replaced
  <1> HIDE DEF q, r, n
  <1>4. Len(r) = b + Len(up) /\ Len(up) \in Nat
    BY <1>1 DEF Grown
  <1>5. ASSUME NEW d \in Nat, NEW x, d < n PROVE Has(r, d, x) <=> Has(q, d, x)
    BY <1>1, <1>4, <1>5 DEF Has, Grown
  <1>6. ASSUME NEW d \in Nat, NEW x, d >= n
        PROVE  Has(r, d, x) <=> d - b \in 1 .. Len(up) /\ up[d - b] = x
    <2>1. d \in 1 .. Len(r) <=> d - b \in 1 .. Len(up)
      BY <1>1, <1>4, <1>6
    <2>2. d \in 1 .. Len(r) => Frame(r, d) = up[d - b]
      BY <1>1, <1>4, <1>6 DEF Grown
    <2> QED BY <2>1, <2>2 DEF Has
  <1> QED BY <1>5, <1>6

LEMMA CallReplaces ==
  ASSUME TypeInv, NEW t \in Callers, NEW up, Calls(t, up)
  PROVE  \E n \in Nat : Replaced(t, n, up) /\ Topped(t, n) /\ n = Height(stack[t])
  <1> DEFINE n == Len(stack[t])
             b == Len(stack[t]) - 1
  <1>1. n \in Nat /\ n >= 1 /\ b \in Nat /\ b + 1 = n /\ b <= n /\ Moves(t, b, up)
    BY Lengths DEF Calls
  <1>2. Replaced(t, n, up)
    BY <1>1, MoveReplaces
  <1>3. Topped(t, n)
    BY <1>1 DEF Topped, Has, Top
  <1> QED BY <1>1, <1>2, <1>3, HeightIs

LEMMA StartReplaces ==
  ASSUME TypeInv, NEW t \in Callers, NEW up, Starts(t, up)
  PROVE  Replaced(t, 1, up) /\ \A d \in Nat : \A x : ~Has(stack[t], d, x)
  <1>1. Len(stack[t]) = 0 /\ Moves(t, 0, up) /\ 0 + 1 = 1
    BY Lengths DEF Starts
  <1>2. Replaced(t, 0 + 1, up)
    BY <1>1, MoveReplaces
  <1> QED BY <1>1, <1>2 DEF Has

(* The worker's thread ends, with two steps left. *)
LEMMA EndReplaces ==
  ASSUME TypeInv, StackInv, Top(Worker) = Do("check"), stack[Worker] # <<>>, Moves(Worker, 0, <<>>)
  PROVE  /\ Replaced(Worker, 1, <<>>)
         /\ \A d \in Nat : \A x : Has(stack[Worker], d, x) => x = Do("wait") \/ x = Do("check")
  <1>1. Worker \in Callers /\ Len(stack[Worker]) \in Nat /\ 0 + 1 = 1 /\ 0 <= Len(stack[Worker])
    BY StreamKinds, Lengths
  <1>2. Replaced(Worker, 0 + 1, <<>>)
    BY <1>1, MoveReplaces
  <1>3. Height(stack[Worker]) = 2
    <2>1. Placed(Worker, Height(stack[Worker]), Top(Worker))
      BY <1>1, TopDepth, HeightIs
    <2> QED BY <2>1 DEF Placed
  <1>4. WorkerBase(stack[Worker])
    BY <1>1 DEF StackInv, StackOK
  <1>5. ASSUME NEW d \in Nat, NEW x, Has(stack[Worker], d, x)
        PROVE  x = Do("wait") \/ x = Do("check")
    <2>1. d \in 1 .. Height(stack[Worker]) /\ Frame(stack[Worker], d) = x
      BY <1>5, HeightIs DEF Has
    <2> QED BY <1>3, <1>4, <2>1, HeightIs DEF WorkerBase
  <1> QED BY <1>1, <1>2, <1>5

-----------------------------------------------------------------------------
(***************************************************************************)
(* The mutexes of the shared streams.                                      *)
(***************************************************************************)

(* A thread that is making its stream does so once. *)
OwnInv ==
    \A t \in Callers, d \in Nat : Has(stack[t], d, Do("own")) =>
        /\ ~ptr[t] /\ being_init[t]
        /\ \A e \in Nat : Has(stack[t], e, Do("own")) => e = d

(* A shared stream is locked from the decision to flush it to the cut. *)
LockInv ==
    /\ \A s \in Shared, t \in Callers :
          mutex[s] = t => \E d \in Nat : Has(stack[t], d, With("cut", s))
    /\ \A s \in Shared, t \in Callers, d \in Nat : Has(stack[t], d, With("cut", s)) =>
          /\ mutex[s] = t
          /\ \A e \in Nat : Has(stack[t], e, With("cut", s)) => e = d

(* Steps that t may not wait at, or go through, while it flushes; the      *)
(* worker formats a block, and logs it, outside of any flush.              *)
Outer(x) ==
    x[1] = "flush" \/ x = With("queue", Log) \/ x = With("cut", Log) \/ x = Do("format")

(* Steps that record a metric. *)
Metric(x) == x = Do("increment") \/ x = With("queue", Metrics)

(* Within a flush there are no flushes nor log entries, and a metric only  *)
(* where a thread stream is made or a block of spans is cut.               *)
NestInv ==
    \A s \in Shared, t \in Callers, d \in Nat, e \in Nat : \A x :
        Has(stack[t], d, With("cut", s)) /\ Has(stack[t], e, x) /\ d < e =>
            /\ ~Outer(x)
            /\ s = Metrics /\ Metric(x) =>
                  \/ "spans" \in console
                  \/ \E f \in Nat : d < f /\ f < e /\ Has(stack[t], f, Do("own"))

MutexInv == OwnInv /\ LockInv /\ NestInv

(* Lists without the steps that the invariants are about. *)
NoOwn(up) == \A k \in 1 .. Len(up) : up[k] # Do("own")
NoCut(up) == \A k \in 1 .. Len(up), s \in Shared : up[k] # With("cut", s)
Calm(up)  == \A k \in 1 .. Len(up) : ~Outer(up[k]) /\ ~Metric(up[k])

(* A list that cuts s once, and then does nothing but spans. *)
OneCut(up, s) ==
    \E k \in 1 .. Len(up) :
        /\ up[k] = With("cut", s)
        /\ \A j \in 1 .. Len(up), u \in Shared : up[j] = With("cut", u) => j = k /\ u = s
        /\ \A j \in 1 .. Len(up) : k < j => up[j] = Do("span")

(* A list that makes a thread stream, and records metrics only to do so. *)
OneOwn(up) ==
    /\ \A k \in 1 .. Len(up) : ~Outer(up[k])
    /\ \E k \in 1 .. Len(up) :
          /\ up[k] = Do("own")
          /\ \A j \in 1 .. Len(up) : up[j] = Do("own") => j = k
          /\ \A j \in 1 .. Len(up) : Metric(up[j]) => k < j

LEMMA MutexLists ==
  /\ NoOwn(<<>>) /\ NoCut(<<>>) /\ Calm(<<>>)
  /\ NoOwn(<<Do("span")>>) /\ NoCut(<<Do("span")>>)
  /\ NoOwn(<<Do("span"), Do("span")>>) /\ NoCut(<<Do("span"), Do("span")>>)
  /\ Calm(<<Do("span"), Do("span")>>)
  /\ \A t \in Callers : /\ NoOwn(<<With("cut", t)>>) /\ NoCut(<<With("cut", t)>>)
                        /\ Calm(<<With("cut", t)>>)
  /\ \A s : NoOwn(<<With("queue", s)>>) /\ NoCut(<<With("queue", s)>>)
  <1> USE DEF NoOwn, NoCut, Calm, Outer, Metric, Do, With
  <1>1. /\ NoOwn(<<>>) /\ NoCut(<<>>) /\ Calm(<<>>)
        /\ NoOwn(<<Do("span")>>) /\ NoCut(<<Do("span")>>)
        /\ NoOwn(<<Do("span"), Do("span")>>) /\ NoCut(<<Do("span"), Do("span")>>)
        /\ Calm(<<Do("span"), Do("span")>>)
    OBVIOUS
  <1>2. ASSUME NEW t \in Callers
        PROVE  /\ NoOwn(<<With("cut", t)>>) /\ NoCut(<<With("cut", t)>>)
               /\ Calm(<<With("cut", t)>>)
    BY StreamKinds
  <1>3. \A s : NoOwn(<<With("queue", s)>>) /\ NoCut(<<With("queue", s)>>)
    OBVIOUS
  <1> QED BY <1>1, <1>2, <1>3

LEMMA BlockLists ==
  /\ \A m : NoOwn(BlockUp(m)) /\ NoCut(BlockUp(m)) /\ \A k \in 1 .. Len(BlockUp(m)) : ~Outer(BlockUp(m)[k])
  /\ \A s \in Shared : NoOwn(FlushUp(s)) /\ OneCut(FlushUp(s), s)
  /\ Calm(FlushUp(Metrics))
  /\ \A t \in Callers : /\ NoCut(AllocUp(t)) /\ OneOwn(AllocUp(t))
                        /\ NoCut(AllocThenUp(t, Do("span"))) /\ OneOwn(AllocThenUp(t, Do("span")))
                        /\ NoCut(AllocThenUp(t, With("cut", t)))
                        /\ OneOwn(AllocThenUp(t, With("cut", t)))
  <1> USE DEF NoOwn, NoCut, Calm, Outer, Metric, Do, With
  <1>1. ASSUME NEW m
        PROVE  /\ NoOwn(BlockUp(m)) /\ NoCut(BlockUp(m))
               /\ \A k \in 1 .. Len(BlockUp(m)) : ~Outer(BlockUp(m)[k])
    BY DEF BlockUp
  <1>2. ASSUME NEW s \in Shared PROVE NoOwn(FlushUp(s)) /\ OneCut(FlushUp(s), s)
    <2>1. /\ Len(FlushUp(s)) = 3 /\ FlushUp(s)[1] = Do("span") /\ FlushUp(s)[2] = With("cut", s)
          /\ FlushUp(s)[3] = Do("span")
      BY DEF FlushUp
    <2>2. NoOwn(FlushUp(s))
      BY <2>1
    <2>3. /\ 2 \in 1 .. Len(FlushUp(s)) /\ FlushUp(s)[2] = With("cut", s)
          /\ \A j \in 1 .. Len(FlushUp(s)), u \in Shared :
                FlushUp(s)[j] = With("cut", u) => j = 2 /\ u = s
          /\ \A j \in 1 .. Len(FlushUp(s)) : 2 < j => FlushUp(s)[j] = Do("span")
      BY <2>1
    <2> QED BY <2>2, <2>3 DEF OneCut
  <1>3. Calm(FlushUp(Metrics))
    BY StreamKinds DEF FlushUp
  <1>4. ASSUME NEW t \in Callers PROVE NoCut(AllocUp(t)) /\ OneOwn(AllocUp(t))
    <2> DEFINE up == AllocUp(t)
    <2>1. /\ Len(up) = 4 /\ up[1] = Do("own") /\ up[2] = Do("trigger")
          /\ up[3] = With("enqueue", InitStream(t)) /\ up[4] = Do("increment")
      BY DEF AllocUp
    <2> HIDE DEF up
    <2>2. NoCut(up) /\ \A k \in 1 .. Len(up) : ~Outer(up[k])
      BY <2>1
    <2>3. /\ 1 \in 1 .. Len(up) /\ \A j \in 1 .. Len(up) : up[j] = Do("own") => j = 1
          /\ \A j \in 1 .. Len(up) : Metric(up[j]) => 1 < j
      BY <2>1
    <2>4. OneOwn(up)
      BY <2>1, <2>2, <2>3 DEF OneOwn
    <2> QED BY <2>2, <2>4 DEF up
  <1>5. ASSUME NEW t \in Callers, NEW x \in {Do("span"), With("cut", t)}
        PROVE  NoCut(AllocThenUp(t, x)) /\ OneOwn(AllocThenUp(t, x))
    <2> DEFINE up == AllocThenUp(t, x)
    <2>0. /\ ~Outer(x) /\ ~Metric(x) /\ x # Do("own") /\ \A s \in Shared : x # With("cut", s)
      BY StreamKinds
    <2>1. /\ Len(up) = 5 /\ up[1] = x /\ up[2] = Do("own") /\ up[3] = Do("trigger")
          /\ up[4] = With("enqueue", InitStream(t)) /\ up[5] = Do("increment")
      BY DEF AllocThenUp
    <2> HIDE DEF up
    <2>2. NoCut(up) /\ \A k \in 1 .. Len(up) : ~Outer(up[k])
      BY <2>0, <2>1
    <2>3. /\ 2 \in 1 .. Len(up) /\ \A j \in 1 .. Len(up) : up[j] = Do("own") => j = 2
          /\ \A j \in 1 .. Len(up) : Metric(up[j]) => 2 < j
      BY <2>0, <2>1
    <2>4. OneOwn(up)
      BY <2>1, <2>2, <2>3 DEF OneOwn
    <2> QED BY <2>2, <2>4 DEF up
  <1> QED BY <1>1, <1>2, <1>3, <1>4, <1>5

LEMMA LongLists ==
  /\ NoOwn(SendUp) /\ NoCut(SendUp) /\ NoOwn(SendMetricUp) /\ NoCut(SendMetricUp)
  /\ NoOwn(SendFlushUp) /\ OneCut(SendFlushUp, Metrics)
  /\ NoOwn(IterationUp) /\ NoCut(IterationUp)
  /\ NoOwn(IterationFlushUp) /\ NoCut(IterationFlushUp)
  /\ NoOwn(FlushAllUp) /\ NoCut(FlushAllUp) /\ NoOwn(UnloadUp) /\ NoCut(UnloadUp)
  /\ NoOwn(InitUp) /\ NoCut(InitUp) /\ NoOwn(FormatUp) /\ NoCut(FormatUp)
  <1> USE DEF NoOwn, NoCut, Do, With
  <1>1. NoOwn(SendUp) /\ NoCut(SendUp) /\ NoOwn(SendMetricUp) /\ NoCut(SendMetricUp)
    BY DEF SendUp, SendMetricUp
  <1>2. NoOwn(SendFlushUp) /\ OneCut(SendFlushUp, Metrics)
    <2> DEFINE up == SendFlushUp
    <2>1. /\ Len(up) = 8 /\ up[1] = Do("drain") /\ up[2] = Do("span") /\ up[3] = Do("send")
          /\ up[4] = Do("span") /\ up[5] = Do("format") /\ up[6] = Do("span")
          /\ up[7] = With("cut", Metrics) /\ up[8] = Do("span")
      BY DEF SendFlushUp
    <2> HIDE DEF up
    <2>2. NoOwn(up)
      BY <2>1
    <2>3. /\ 7 \in 1 .. Len(up)
          /\ \A j \in 1 .. Len(up), u \in Shared : up[j] = With("cut", u) => j = 7 /\ u = Metrics
          /\ \A j \in 1 .. Len(up) : 7 < j => up[j] = Do("span")
      BY <2>1
    <2>4. OneCut(up, Metrics)
      BY <2>1, <2>3 DEF OneCut
    <2> QED BY <2>2, <2>4 DEF up
  <1>3. NoOwn(IterationUp) /\ NoCut(IterationUp)
    BY DEF IterationUp
  <1>4. NoOwn(IterationFlushUp) /\ NoCut(IterationFlushUp)
    BY DEF IterationFlushUp
  <1>5. NoOwn(FlushAllUp) /\ NoCut(FlushAllUp)
    BY DEF FlushAllUp
  <1>6. NoOwn(UnloadUp) /\ NoCut(UnloadUp)
    BY DEF UnloadUp
  <1>7. NoOwn(InitUp) /\ NoCut(InitUp)
    BY DEF InitUp
  <1>8. NoOwn(FormatUp) /\ NoCut(FormatUp)
    BY DEF FormatUp
  <1> QED BY <1>1, <1>2, <1>3, <1>4, <1>5, <1>6, <1>7, <1>8

LEMMA OwnKept ==
  ASSUME OwnInv, NEW t \in Callers, NEW n, NEW up, Replaced(t, n, up), NoOwn(up),
         UNCHANGED ptr, UNCHANGED being_init
  PROVE  OwnInv'
  <1>1. ASSUME NEW u \in Callers, NEW d \in Nat, Has(stack'[u], d, Do("own"))
        PROVE  Has(stack[u], d, Do("own"))
    <2>1. CASE u # t
      BY <1>1, <2>1 DEF Replaced
    <2>2. CASE u = t
      <3>1. d >= n => up[d - (n - 1)] = Do("own") /\ d - (n - 1) \in 1 .. Len(up)
        BY <1>1, <2>2 DEF Replaced
      <3>2. ~(d >= n)
        BY <3>1 DEF NoOwn
      <3> QED BY <1>1, <2>2, <3>2 DEF Replaced
    <2> QED BY <2>1, <2>2
  <1> QED BY <1>1 DEF OwnInv

LEMMA OwnMade ==
  ASSUME TypeInv, OwnInv, NEW t \in Callers, NEW n, NEW up, Replaced(t, n, up), OneOwn(up),
         ~ptr[t], ~being_init[t], UNCHANGED ptr, being_init' = [being_init EXCEPT ![t] = TRUE]
  PROVE  OwnInv'
  <1>1. \A d \in Nat : ~Has(stack[t], d, Do("own"))
    BY DEF OwnInv
  <1>2. PICK k \in 1 .. Len(up) : /\ up[k] = Do("own")
                                  /\ \A j \in 1 .. Len(up) : up[j] = Do("own") => j = k
    BY DEF OneOwn
  <1>3. ASSUME NEW d \in Nat, Has(stack'[t], d, Do("own")) PROVE d = k + (n - 1)
    <2>1. d >= n
      BY <1>1, <1>3 DEF Replaced
    <2>2. d - (n - 1) \in 1 .. Len(up) /\ up[d - (n - 1)] = Do("own")
      BY <1>3, <2>1 DEF Replaced
    <2>3. d - (n - 1) = k /\ n \in Nat
      BY <1>2, <2>2 DEF Replaced
    <2> QED BY <2>3
  <1>4. ASSUME NEW u \in Callers, u # t PROVE stack'[u] = stack[u] /\ being_init'[u] = being_init[u]
    BY <1>4 DEF Replaced, TypeInv
  <1>5. being_init'[t] /\ ~ptr'[t]
    BY DEF TypeInv
  <1>6. ASSUME NEW u \in Callers, NEW d \in Nat, Has(stack'[u], d, Do("own"))
        PROVE  /\ ~ptr'[u] /\ being_init'[u]
               /\ \A e \in Nat : Has(stack'[u], e, Do("own")) => e = d
    BY <1>3, <1>4, <1>5, <1>6 DEF OwnInv
  <1> QED BY <1>6 DEF OwnInv

LEMMA OwnDone ==
  ASSUME TypeInv, OwnInv, NEW t \in Callers, NEW n, Replaced(t, n, <<>>), Topped(t, n),
         Top(t) = Do("own"), UNCHANGED being_init, ptr' = [ptr EXCEPT ![t] = TRUE]
  PROVE  OwnInv' /\ \A d \in Nat : ~Has(stack'[t], d, Do("own"))
  <1>1. \A d \in Nat : Has(stack[t], d, Do("own")) => d = n
    BY DEF OwnInv, Topped
  <1>2. \A d \in Nat : \A x : ~(d >= n /\ Has(stack'[t], d, x))
    BY DEF Replaced
  <1>3. \A d \in Nat : ~Has(stack'[t], d, Do("own"))
    BY <1>1, <1>2 DEF Replaced
  <1>4. ASSUME NEW u \in Callers, u # t PROVE stack'[u] = stack[u] /\ ptr'[u] = ptr[u]
    BY <1>4 DEF Replaced, TypeInv
  <1> QED BY <1>3, <1>4 DEF OwnInv

(* No cut of a shared stream is among the steps of t from depth n up. *)
CutsStay(t, n) == \A d \in Nat, s \in Shared : d >= n => ~Has(stack[t], d, With("cut", s))

LEMMA CutsKept ==
  ASSUME NEW t \in Callers, NEW n, NEW up, Replaced(t, n, up), NoCut(up), CutsStay(t, n)
  PROVE  \A u \in Callers, d \in Nat, s \in Shared :
            Has(stack'[u], d, With("cut", s)) <=> Has(stack[u], d, With("cut", s))
  <1> SUFFICES ASSUME NEW u \in Callers, NEW d \in Nat, NEW s \in Shared
               PROVE  Has(stack'[u], d, With("cut", s)) <=> Has(stack[u], d, With("cut", s))
    OBVIOUS
  <1>1. CASE u # t
    BY <1>1 DEF Replaced
  <1>2. CASE u = t /\ d < n
    BY <1>2 DEF Replaced
  <1>3. CASE u = t /\ d >= n
    <2>1. ~Has(stack[t], d, With("cut", s))
      BY <1>3 DEF CutsStay
    <2>2. Has(stack'[t], d, With("cut", s)) =>
             d - (n - 1) \in 1 .. Len(up) /\ up[d - (n - 1)] = With("cut", s)
      BY <1>3 DEF Replaced
    <2>3. ~Has(stack'[t], d, With("cut", s))
      BY <2>2 DEF NoCut
    <2> QED BY <1>3, <2>1, <2>3
  <1> QED BY <1>1, <1>2, <1>3 DEF Replaced

LEMMA LockKept ==
  ASSUME LockInv, NEW t \in Callers, NEW n, NEW up, Replaced(t, n, up), NoCut(up),
         CutsStay(t, n), UNCHANGED mutex
  PROVE  LockInv'
  <1>1. \A u \in Callers, d \in Nat, s \in Shared :
            Has(stack'[u], d, With("cut", s)) <=> Has(stack[u], d, With("cut", s))
    BY CutsKept
  <1>2. ASSUME NEW s \in Shared, NEW u \in Callers, mutex'[s] = u
        PROVE  \E d \in Nat : Has(stack'[u], d, With("cut", s))
    <2>1. PICK d \in Nat : Has(stack[u], d, With("cut", s))
      BY <1>2 DEF LockInv
    <2> QED BY <1>1, <2>1
  <1>3. ASSUME NEW s \in Shared, NEW u \in Callers, NEW d \in Nat, Has(stack'[u], d, With("cut", s))
        PROVE  mutex'[s] = u /\ \A e \in Nat : Has(stack'[u], e, With("cut", s)) => e = d
    BY <1>1, <1>3 DEF LockInv
  <1> QED BY <1>2, <1>3 DEF LockInv

LEMMA LockTaken ==
  ASSUME TypeInv, LockInv, NEW t \in Callers, NEW n, NEW up, NEW s0 \in Shared,
         Replaced(t, n, up), OneCut(up, s0), CutsStay(t, n), Locks(t, s0)
  PROVE  LockInv'
  <1>1. \A u \in Callers, d \in Nat : ~Has(stack[u], d, With("cut", s0))
    BY StreamKinds DEF LockInv, Locks
  <1>2. PICK k \in 1 .. Len(up) :
              /\ up[k] = With("cut", s0)
              /\ \A j \in 1 .. Len(up), u \in Shared : up[j] = With("cut", u) => j = k /\ u = s0
    BY DEF OneCut
  <1>3. n \in Nat /\ n >= 1 /\ k \in Nat /\ k >= 1
    BY <1>2 DEF Replaced
  <1>4. /\ k + (n - 1) \in Nat /\ k + (n - 1) >= n /\ (k + (n - 1)) - (n - 1) = k
    BY <1>3
  <1>5. Has(stack'[t], k + (n - 1), With("cut", s0))
    BY <1>2, <1>4 DEF Replaced
  <1>6. ASSUME NEW u \in Callers, NEW d \in Nat, NEW s \in Shared, Has(stack'[u], d, With("cut", s))
        PROVE  \/ s # s0 /\ Has(stack[u], d, With("cut", s))
               \/ s = s0 /\ u = t /\ d = k + (n - 1)
    <2>1. CASE u # t \/ d < n
      BY <1>1, <1>6, <2>1 DEF Replaced
    <2>2. CASE u = t /\ d >= n
      <3>1. d - (n - 1) \in 1 .. Len(up) /\ up[d - (n - 1)] = With("cut", s)
        BY <1>6, <2>2 DEF Replaced
      <3>2. d - (n - 1) = k /\ s = s0
        BY <1>2, <3>1
      <3>3. d = k + (n - 1)
        BY <1>3, <3>2
      <3> QED BY <2>2, <3>2, <3>3
    <2> QED BY <1>3, <2>1, <2>2
  <1>7. ASSUME NEW u \in Callers, NEW d \in Nat, NEW s \in Shared, s # s0,
               Has(stack[u], d, With("cut", s))
        PROVE  Has(stack'[u], d, With("cut", s))
    <2>1. ~(u = t /\ d >= n)
      BY <1>7 DEF CutsStay
    <2> QED BY <1>3, <1>7, <2>1 DEF Replaced
  <1>8. /\ mutex'[s0] = t /\ \A s \in Shared : s # s0 => mutex'[s] = mutex[s]
    BY DEF Locks, TypeInv
  <1>9. ASSUME NEW s \in Shared, NEW u \in Callers, mutex'[s] = u
        PROVE  \E d \in Nat : Has(stack'[u], d, With("cut", s))
    <2>1. CASE s = s0
      BY <1>4, <1>5, <1>8, <1>9, <2>1
    <2>2. CASE s # s0
      <3>1. PICK d \in Nat : Has(stack[u], d, With("cut", s))
        BY <1>8, <1>9, <2>2 DEF LockInv
      <3> QED BY <1>7, <2>2, <3>1
    <2> QED BY <2>1, <2>2
  <1>10. ASSUME NEW s \in Shared, NEW u \in Callers, NEW d \in Nat, Has(stack'[u], d, With("cut", s))
         PROVE  mutex'[s] = u /\ \A e \in Nat : Has(stack'[u], e, With("cut", s)) => e = d
    BY <1>6, <1>8, <1>10 DEF LockInv
  <1> QED BY <1>9, <1>10 DEF LockInv

LEMMA LockFreed ==
  ASSUME TypeInv, LockInv, NEW t \in Callers, NEW n, NEW up, NEW s0 \in Shared,
         Replaced(t, n, up), NoCut(up), Topped(t, n), Top(t) = With("cut", s0),
         mutex' = [mutex EXCEPT ![s0] = None]
  PROVE  LockInv'
  <1>1. n \in Nat /\ Has(stack[t], n, With("cut", s0))
    BY DEF Topped
  <1>2. mutex[s0] = t /\ \A d \in Nat : Has(stack[t], d, With("cut", s0)) => d = n
    BY <1>1 DEF LockInv
  <1>3. ASSUME NEW u \in Callers, NEW d \in Nat, NEW s \in Shared, Has(stack'[u], d, With("cut", s))
        PROVE  s # s0 /\ Has(stack[u], d, With("cut", s))
    <2>1. CASE u # t
      BY <1>2, <1>3, <2>1 DEF Replaced, LockInv
    <2>2. CASE u = t /\ d < n
      <3>1. Has(stack[t], d, With("cut", s))
        BY <1>3, <2>2 DEF Replaced
      <3> QED BY <1>1, <1>2, <2>2, <3>1
    <2>3. CASE u = t /\ d >= n
      <3>1. d - (n - 1) \in 1 .. Len(up) /\ up[d - (n - 1)] = With("cut", s)
        BY <1>3, <2>3 DEF Replaced
      <3> QED BY <3>1 DEF NoCut
    <2> QED BY <1>1, <2>1, <2>2, <2>3
  <1>4. ASSUME NEW u \in Callers, NEW d \in Nat, NEW s \in Shared, s # s0,
               Has(stack[u], d, With("cut", s))
        PROVE  Has(stack'[u], d, With("cut", s))
    <2>1. CASE u # t
      BY <1>4, <2>1 DEF Replaced
    <2>2. CASE u = t
      <3>1. d <= n
        BY <1>4, <2>2 DEF Topped
      <3>2. d # n
        <4>1. With("cut", s) # With("cut", s0)
          BY <1>4 DEF With
        <4> QED BY <1>4, <2>2, <4>1 DEF Topped
      <3>3. d < n
        BY <1>1, <3>1, <3>2
      <3> QED BY <1>4, <2>2, <3>3 DEF Replaced
    <2> QED BY <2>1, <2>2
  <1>5. mutex'[s0] = None /\ \A s \in Shared : s # s0 => mutex'[s] = mutex[s]
    BY DEF TypeInv
  <1>6. ASSUME NEW s \in Shared, NEW u \in Callers, mutex'[s] = u
        PROVE  \E d \in Nat : Has(stack'[u], d, With("cut", s))
    <2>1. s # s0 /\ mutex[s] = u
      BY <1>5, <1>6, StreamKinds
    <2>2. PICK d \in Nat : Has(stack[u], d, With("cut", s))
      BY <2>1 DEF LockInv
    <2> QED BY <1>4, <2>1, <2>2
  <1>7. ASSUME NEW s \in Shared, NEW u \in Callers, NEW d \in Nat, Has(stack'[u], d, With("cut", s))
        PROVE  mutex'[s] = u /\ \A e \in Nat : Has(stack'[u], e, With("cut", s)) => e = d
    BY <1>3, <1>5, <1>7 DEF LockInv
  <1> QED BY <1>6, <1>7 DEF LockInv

(* Every step of up may be above the cuts that t has below depth n. *)
Nests(t, n, up) ==
    \A s \in Shared, d \in Nat, k \in 1 .. Len(up) :
        Has(stack[t], d, With("cut", s)) /\ d < n =>
            /\ ~Outer(up[k])
            /\ s = Metrics /\ Metric(up[k]) =>
                  \/ "spans" \in console
                  \/ \E f \in Nat : d < f /\ f < n /\ Has(stack[t], f, Do("own"))
                  \/ \E j \in 1 .. Len(up) : j < k /\ up[j] = Do("own")

LEMMA NestKept ==
  ASSUME NestInv, NEW t \in Callers, NEW n, NEW up, Replaced(t, n, up), Nests(t, n, up),
         UNCHANGED console, NoCut(up) \/ \E s \in Shared : OneCut(up, s)
  PROVE  NestInv'
  <1>0. n \in Nat /\ n >= 1
    BY DEF Replaced
  <1> SUFFICES ASSUME NEW s \in Shared, NEW u \in Callers, NEW d \in Nat, NEW e \in Nat, NEW x,
                      Has(stack'[u], d, With("cut", s)), Has(stack'[u], e, x), d < e
               PROVE  /\ ~Outer(x)
                      /\ s = Metrics /\ Metric(x) =>
                            \/ "spans" \in console'
                            \/ \E f \in Nat : d < f /\ f < e /\ Has(stack'[u], f, Do("own"))
    BY DEF NestInv
  <1>1. CASE u # t
    BY <1>1 DEF NestInv, Replaced
  <1>2. CASE u = t /\ e < n
    <2>1. Has(stack[t], d, With("cut", s)) /\ Has(stack[t], e, x)
      BY <1>0, <1>2 DEF Replaced
    <2>2. ASSUME NEW f \in Nat, f < e, Has(stack[t], f, Do("own")) PROVE Has(stack'[t], f, Do("own"))
      BY <1>0, <1>2, <2>2 DEF Replaced
    <2> QED BY <1>2, <2>1, <2>2 DEF NestInv
  <1>3. CASE u = t /\ d < n /\ e >= n
    <2> DEFINE k == e - (n - 1)
    <2>1. Has(stack[t], d, With("cut", s)) /\ k \in 1 .. Len(up) /\ up[k] = x
      BY <1>0, <1>3 DEF Replaced
    <2>2. /\ ~Outer(x)
          /\ s = Metrics /\ Metric(x) =>
                \/ "spans" \in console
                \/ \E f \in Nat : d < f /\ f < n /\ Has(stack[t], f, Do("own"))
                \/ \E j \in 1 .. Len(up) : j < k /\ up[j] = Do("own")
      BY <1>3, <2>1 DEF Nests
    <2>3. ASSUME NEW f \in Nat, d < f, f < n, Has(stack[t], f, Do("own"))
          PROVE  f < e /\ Has(stack'[t], f, Do("own"))
      BY <1>0, <1>3, <2>3 DEF Replaced
    <2>4. ASSUME NEW j \in 1 .. Len(up), j < k, up[j] = Do("own")
          PROVE  /\ j + (n - 1) \in Nat /\ d < j + (n - 1) /\ j + (n - 1) < e
                 /\ Has(stack'[t], j + (n - 1), Do("own"))
      <3>1. /\ j + (n - 1) \in Nat /\ j + (n - 1) >= n /\ (j + (n - 1)) - (n - 1) = j
            /\ d < j + (n - 1) /\ j + (n - 1) < e
        BY <1>0, <1>3, <2>4
      <3> QED BY <2>4, <3>1 DEF Replaced
    <2> HIDE DEF k
    <2> QED BY <1>3, <2>2, <2>3, <2>4
  <1>4. CASE u = t /\ d >= n
    <2> DEFINE i == d - (n - 1)
               k == e - (n - 1)
    <2>1. /\ i \in 1 .. Len(up) /\ up[i] = With("cut", s)
          /\ k \in 1 .. Len(up) /\ up[k] = x /\ i < k
      BY <1>0, <1>4 DEF Replaced
    <2> HIDE DEF i, k
    <2>2. x = Do("span")
      BY <2>1 DEF NoCut, OneCut
    <2> QED BY <2>2 DEF Outer, Metric, Do, With
  <1> QED BY <1>0, <1>1, <1>2, <1>3, <1>4

NotCut(x) == \A s \in Shared : x # With("cut", s)

LEMMA NotCuts ==
  /\ \A op : NotCut(Do(op))
  /\ \A s : NotCut(With("queue", s)) /\ NotCut(With("flush", s)) /\ NotCut(With("enqueue", s))
  /\ \A t \in Callers : NotCut(With("cut", t))
  <1>1. ASSUME NEW op, NEW s \in Shared PROVE Do(op) # With("cut", s)
    BY StreamKinds, UnrealAssumption DEF Do, With, Streams
  <1> QED BY <1>1, StreamKinds DEF NotCut, With

LEMMA TopStays ==
  ASSUME NEW t, NEW n, Topped(t, n), NotCut(Top(t)) PROVE CutsStay(t, n)
  <1> SUFFICES ASSUME NEW d \in Nat, NEW s \in Shared, d >= n, Has(stack[t], d, With("cut", s))
               PROVE  FALSE
    BY DEF CutsStay
  <1>1. d = n
    BY DEF Topped
  <1> QED BY <1>1 DEF Topped, NotCut

(* A step that has nothing to do with mutexes. *)
LEMMA MutexPlain ==
  ASSUME TypeInv, MutexInv, NEW t \in Callers, NEW up, Calls(t, up), NotCut(Top(t)),
         NoOwn(up), NoCut(up), Calm(up), UNCHANGED <<mutex, ptr, being_init, console>>
  PROVE  MutexInv'
  <1>1. PICK n \in Nat : Replaced(t, n, up) /\ Topped(t, n)
    BY CallReplaces
  <1>2. CutsStay(t, n)
    BY <1>1, TopStays
  <1>3. Nests(t, n, up)
    BY DEF Nests, Calm
  <1> QED BY <1>1, <1>2, <1>3, OwnKept, LockKept, NestKept DEF MutexInv

(* A step that t does only when it flushes no shared stream. *)
LEMMA MutexBase ==
  ASSUME TypeInv, MutexInv, NEW t \in Callers, NEW up, NEW n, Replaced(t, n, up), CutsStay(t, n),
         \A s \in Shared, d \in Nat : d < n => ~Has(stack[t], d, With("cut", s)),
         NoOwn(up),
         \/ NoCut(up) /\ UNCHANGED mutex
         \/ \E s \in Shared : OneCut(up, s) /\ Locks(t, s),
         UNCHANGED <<ptr, being_init, console>>
  PROVE  MutexInv'
  <1>1. Nests(t, n, up)
    BY DEF Nests
  <1> QED BY <1>1, OwnKept, LockKept, LockTaken, NestKept DEF MutexInv

LEMMA OuterFree ==
  ASSUME MutexInv, NEW t \in Callers, NEW n, Topped(t, n), Outer(Top(t))
  PROVE  \A s \in Shared, d \in Nat : d < n => ~Has(stack[t], d, With("cut", s))
  BY DEF MutexInv, NestInv, Topped

(* A flush of s, by a step that may not be inside another one, or of the   *)
(* metrics.                                                                *)
LEMMA MutexLock ==
  ASSUME TypeInv, MutexInv, NEW t \in Callers, NEW s \in Shared, Calls(t, FlushUp(s)),
         Locks(t, s), NotCut(Top(t)), s = Metrics \/ Outer(Top(t)),
         UNCHANGED <<ptr, being_init, console>>
  PROVE  MutexInv'
  <1>1. PICK n \in Nat : Replaced(t, n, FlushUp(s)) /\ Topped(t, n)
    BY CallReplaces
  <1>2. CutsStay(t, n)
    BY <1>1, TopStays
  <1>3. NoOwn(FlushUp(s)) /\ OneCut(FlushUp(s), s)
    BY BlockLists
  <1>4. CASE s = Metrics
    <2>1. Nests(t, n, FlushUp(s))
      BY <1>4, BlockLists DEF Nests, Calm
    <2> QED BY <1>1, <1>2, <1>3, <2>1, OwnKept, LockTaken, NestKept DEF MutexInv
  <1>5. CASE Outer(Top(t))
    BY <1>1, <1>2, <1>3, <1>5, OuterFree, MutexBase
  <1> QED BY <1>4, <1>5

LEMMA MutexStart ==
  ASSUME TypeInv, MutexInv, NEW t \in Callers, NEW up, Starts(t, up), NoOwn(up), NoCut(up),
         UNCHANGED <<mutex, ptr, being_init, console>>
  PROVE  MutexInv'
  <1>1. Replaced(t, 1, up) /\ \A d \in Nat : \A x : ~Has(stack[t], d, x)
    BY StartReplaces
  <1>2. CutsStay(t, 1)
    BY <1>1 DEF CutsStay
  <1> QED BY <1>1, <1>2, MutexBase

LEMMA MutexAlloc ==
  ASSUME TypeInv, MutexInv, NEW t \in Callers, NEW up, Announces(t, up), NoCut(up), OneOwn(up),
         NotCut(Top(t)), UNCHANGED <<mutex, ptr, console>>
  PROVE  MutexInv'
  <1>1. CASE Calls(t, <<>>) /\ UNCHANGED being_init
    BY <1>1, MutexPlain, MutexLists
  <1>2. CASE ~being_init[t] /\ being_init' = [being_init EXCEPT ![t] = TRUE] /\ Calls(t, up)
    <2>1. PICK n \in Nat : Replaced(t, n, up) /\ Topped(t, n)
      BY <1>2, CallReplaces
    <2>2. CutsStay(t, n)
      BY <2>1, TopStays
    <2>3. Nests(t, n, up)
      BY DEF Nests, OneOwn
    <2>4. OwnInv'
      BY <1>2, <2>1, OwnMade DEF MutexInv, Announces
    <2> QED BY <2>1, <2>2, <2>3, <2>4, LockKept, NestKept DEF MutexInv
  <1> QED BY <1>1, <1>2 DEF Announces

LEMMA MutexCut ==
  ASSUME TypeInv, MutexInv, NEW t \in Callers, NEW s \in Streams, Cuts(t, s)
  PROVE  MutexInv'
  <1>1. PICK up : /\ Calls(t, up) /\ NoOwn(up) /\ NoCut(up)
                  /\ \A k \in 1 .. Len(up) : ~Outer(up[k])
                  /\ Calm(up) \/ ShouldSampleBlock(s)
    BY MutexLists, BlockLists DEF Cuts, Calm
  <1>2. PICK n \in Nat : Replaced(t, n, up) /\ Topped(t, n)
    BY <1>1, CallReplaces
  <1>3. UNCHANGED <<ptr, being_init, console>> /\ Top(t) = With("cut", s) /\ Has(stack[t], n, Top(t))
    BY <1>2 DEF Cuts, Topped
  <1>4. LockInv'
    <2>1. CASE s \in Shared
      BY <1>1, <1>2, <2>1, LockFreed DEF Cuts, MutexInv
    <2>2. CASE s \in Callers
      <3>1. s \notin Shared /\ NotCut(Top(t))
        BY <1>3, <2>2, StreamKinds, NotCuts
      <3> QED BY <1>1, <1>2, <3>1, TopStays, LockKept DEF Cuts, MutexInv
    <2> QED BY <2>1, <2>2, StreamKinds
  <1>5. Nests(t, n, up)
    <2> SUFFICES ASSUME NEW d \in Nat, Has(stack[t], d, With("cut", Metrics)), d < n,
                        ShouldSampleBlock(s)
                 PROVE  "spans" \in console
      BY <1>1 DEF Nests, Calm
    <2>1. s \notin Shared
      <3>1. s # Metrics
        BY <1>2, <1>3, StreamKinds DEF MutexInv, LockInv
      <3>2. s # Log
        BY <1>2, <1>3, StreamKinds DEF MutexInv, NestInv, Outer
      <3> QED BY <3>1, <3>2 DEF Shared
    <2> QED BY <2>1 DEF ShouldSampleBlock
  <1> QED BY <1>1, <1>2, <1>3, <1>4, <1>5, OwnKept, NestKept DEF MutexInv

LEMMA MutexIncrement ==
  ASSUME TypeInv, MutexInv, NEW t \in Callers, IncrementQueueSize(t)
  PROVE  MutexInv'
  <1>1. /\ Top(t) = Do("increment") /\ NotCut(Top(t)) /\ Metrics \in Shared
        /\ UNCHANGED <<ptr, being_init, console>>
    BY IncrementEffect, NotCuts, StreamKinds
  <1>2. CASE Pops(t)
    BY <1>1, <1>2, MutexPlain, MutexLists DEF Pops
  <1>3. CASE Locks(t, Metrics) /\ Calls(t, FlushUp(Metrics))
    BY <1>1, <1>3, MutexLock
  <1>4. CASE Calls(t, <<With("queue", Metrics)>>) /\ UNCHANGED mutex
    <2> DEFINE up == <<With("queue", Metrics)>>
    <2>1. PICK n \in Nat : Replaced(t, n, up) /\ Topped(t, n)
      BY <1>4, CallReplaces
    <2>2. CutsStay(t, n) /\ Has(stack[t], n, Do("increment"))
      BY <1>1, <2>1, TopStays DEF Topped
    <2>3. NoOwn(up) /\ NoCut(up)
      BY MutexLists
    <2>4. \A k \in 1 .. Len(up) : ~Outer(up[k])
      BY StreamKinds DEF Outer, With, Do
    <2> HIDE DEF up
    <2>5. Nests(t, n, up)
      <3>1. Metric(Do("increment"))
        BY DEF Metric
      <3> QED BY <2>2, <2>4, <3>1 DEF Nests, MutexInv, NestInv
    <2> QED BY <1>1, <1>4, <2>1, <2>2, <2>3, <2>5, OwnKept, LockKept, NestKept DEF MutexInv
  <1> QED BY <1>2, <1>3, <1>4, IncrementEffect

LEMMA MutexStep ==
  ASSUME TypeInv, MutexInv, NEW t \in Callers, Step(t) PROVE MutexInv'
  <1>1. CASE QueueShared(t)
    <2>1. PICK s \in Shared : Queues(t, s)
      BY <1>1, QueueEffect
    <2>2. /\ NotCut(Top(t)) /\ (s = Metrics \/ Outer(Top(t)))
          /\ UNCHANGED <<ptr, being_init, console>>
      BY <2>1, NotCuts DEF Queues, Shared, Outer
    <2> QED BY <2>1, <2>2, MutexPlain, MutexLists, MutexLock DEF Queues, Pops
  <1>2. CASE FlushShared(t)
    <2>1. PICK s \in Shared : Flushes(t, s)
      BY <1>2, FlushEffect
    <2>2. NotCut(Top(t)) /\ Outer(Top(t)) /\ UNCHANGED <<ptr, being_init, console>>
      <3>1. Outer(With("flush", s))
        BY DEF Outer, With
      <3> QED BY <2>1, <3>1, NotCuts DEF Flushes
    <2> QED BY <2>1, <2>2, MutexPlain, MutexLists, MutexLock DEF Flushes, Pops
  <1>3. CASE CutBlock(t)
    BY <1>3, CutEffect, MutexCut
  <1>4. CASE Own(t)
    <2>1. /\ Top(t) = Do("own") /\ Calls(t, <<>>) /\ ptr' = [ptr EXCEPT ![t] = TRUE]
          /\ UNCHANGED <<mutex, being_init, console>> /\ NotCut(Top(t))
      BY <1>4, OwnEffect, NotCuts
    <2>2. PICK n \in Nat : Replaced(t, n, <<>>) /\ Topped(t, n)
      BY <2>1, CallReplaces
    <2>3. CutsStay(t, n) /\ Nests(t, n, <<>>)
      BY <2>1, <2>2, TopStays, MutexLists DEF Nests, Calm
    <2>4. OwnInv'
      BY <2>1, <2>2, OwnDone DEF MutexInv
    <2> QED BY <2>1, <2>2, <2>3, <2>4, LockKept, NestKept, MutexLists DEF MutexInv
  <1>5. CASE InitCurrentThreadStream(t)
    <2>1. NotCut(Top(t)) /\ UNCHANGED <<mutex, ptr, console>>
      BY <1>5, InitThreadEffect, NotCuts
    <2> QED BY <1>5, <2>1, InitThreadEffect, MutexAlloc, BlockLists, MutexPlain, MutexLists
  <1>6. CASE QueueThreadEvent(t)
    <2>1. NotCut(Top(t)) /\ UNCHANGED <<mutex, ptr, console>>
      BY <1>6, SpanEffect, NotCuts
    <2> QED BY <1>6, <2>1, SpanEffect, MutexAlloc, BlockLists, MutexPlain, MutexLists DEF CutsOwn
  <1>7. CASE FlushCurrentThreadStream(t)
    <2>1. NotCut(Top(t)) /\ UNCHANGED <<mutex, ptr, console>>
      BY <1>7, FlushThreadEffect, NotCuts
    <2> QED BY <1>7, <2>1, FlushThreadEffect, MutexAlloc, BlockLists, MutexPlain, MutexLists
            DEF CutsOwn
  <1>8. CASE MarkStreamsFull(t)
    BY <1>8, MarkEffect, NotCuts, MutexPlain, MutexLists
  <1>9. CASE IncrementQueueSize(t)
    BY <1>9, MutexIncrement
  <1>10. CASE Enqueue(t)
    BY <1>10, EnqueueEffect, NotCuts, MutexPlain, MutexLists DEF Enqueues
  <1>11. CASE Trigger(t)
    BY <1>11, TriggerEffect, NotCuts, MutexPlain, MutexLists
  <1> QED BY <1>1, <1>2, <1>3, <1>4, <1>5, <1>6, <1>7, <1>8, <1>9, <1>10, <1>11 DEF Step

(* The steps of an iteration are the lowest ones of the worker's stack. *)
LEMMA WorkerFree ==
  ASSUME TypeInv, StackInv, NEW n \in Nat, n <= 3, n <= Height(stack[Worker])
  PROVE  \A s \in Shared, d \in Nat : d < n => ~Has(stack[Worker], d, With("cut", s))
  <1> SUFFICES ASSUME NEW s \in Shared, NEW d \in Nat, d < n, Has(stack[Worker], d, With("cut", s))
               PROVE  FALSE
    OBVIOUS
  <1>1. Worker \in Callers /\ d \in 1 .. 2 /\ d \in 1 .. Len(stack[Worker]) /\ Len(stack[Worker]) \in Nat
    BY StreamKinds, Lengths DEF Has
  <1>2. WorkerBase(stack[Worker]) /\ Frame(stack[Worker], d) = With("cut", s)
    BY <1>1 DEF StackInv, StackOK, Has
  <1>3. Frame(stack[Worker], d) \in {Do("wait"), Do("check")}
    BY <1>1, <1>2 DEF WorkerBase
  <1> QED BY <1>2, <1>3 DEF Do, With

LEMMA MutexWorker ==
  ASSUME TypeInv, StackInv, MutexInv, WorkerStep \/ Wait PROVE MutexInv'
  <1>0. Worker \in Callers /\ Metrics \in Shared /\ \A op : NotCut(Do(op))
    BY StreamKinds, NotCuts
  <1>1. ASSUME NEW up, Calls(Worker, up), Top(Worker) \in {Do("drain"), Do("wait")}, NoOwn(up),
               \/ NoCut(up) /\ UNCHANGED mutex
               \/ OneCut(up, Metrics) /\ Locks(Worker, Metrics),
               UNCHANGED <<ptr, being_init, console>>
        PROVE  MutexInv'
    <2>1. PICK n \in Nat : /\ Replaced(Worker, n, up) /\ Topped(Worker, n)
                           /\ n = Height(stack[Worker])
      BY <1>0, <1>1, CallReplaces
    <2>2. Placed(Worker, n, Top(Worker))
      BY <1>0, <1>1, <2>1, TopDepth, HeightIs DEF Calls
    <2>3. n <= 3
      BY <1>1, <2>1, <2>2 DEF Placed
    <2>4. CutsStay(Worker, n)
      BY <1>0, <1>1, <2>1, TopStays
    <2>5. \A s \in Shared, d \in Nat : d < n => ~Has(stack[Worker], d, With("cut", s))
      BY <2>1, <2>3, WorkerFree
    <2> QED BY <1>0, <1>1, <2>1, <2>4, <2>5, MutexBase
  <1>2. CASE Drain
    <2>1. Top(Worker) = Do("drain") /\ UNCHANGED <<ptr, being_init, console>>
      BY <1>2, DrainEffect
    <2>2. CASE Calls(Worker, <<>>) /\ UNCHANGED mutex
      BY <1>0, <2>1, <2>2, MutexPlain, MutexLists
    <2>3. CASE \/ Calls(Worker, SendUp) /\ UNCHANGED mutex
               \/ Calls(Worker, SendMetricUp) /\ UNCHANGED mutex
               \/ Locks(Worker, Metrics) /\ Calls(Worker, SendFlushUp)
      BY <1>1, <2>1, <2>3, LongLists
    <2> QED BY <1>2, <2>2, <2>3, DrainEffect
  <1>3. CASE SendBinaryRequest
    BY <1>0, <1>3, SendEffect, MutexPlain, MutexLists
  <1>4. CASE CheckShutdown
    <2>1. /\ Top(Worker) = Do("check") /\ stack[Worker] # <<>>
          /\ UNCHANGED <<mutex, ptr, being_init, console>>
      BY <1>4, CheckEffect
    <2>2. CASE Calls(Worker, <<>>)
      BY <1>0, <2>1, <2>2, MutexPlain, MutexLists
    <2>3. CASE Moves(Worker, 0, <<>>)
      <3>1. /\ Replaced(Worker, 1, <<>>)
            /\ \A d \in Nat : \A x : Has(stack[Worker], d, x) => x = Do("wait") \/ x = Do("check")
        BY <2>1, <2>3, EndReplaces
      <3>2. \A d \in Nat, s \in Shared : ~Has(stack[Worker], d, With("cut", s))
        BY <1>0, <3>1 DEF NotCut
      <3> QED BY <1>0, <2>1, <3>1, <3>2, MutexBase, MutexLists DEF CutsStay
    <2> QED BY <1>4, <2>2, <2>3, CheckEffect
  <1>5. CASE Wait
    BY <1>1, <1>5, WaitEffect, LongLists
  <1>6. CASE FormatRequest
    <2>1. /\ Top(Worker) = Do("format") /\ UNCHANGED <<mutex, ptr, being_init, console>>
          /\ Calls(Worker, <<>>) \/ Calls(Worker, FormatUp)
      BY <1>6, FormatEffect
    <2>2. CASE Calls(Worker, <<>>)
      BY <1>0, <2>1, <2>2, MutexPlain, MutexLists
    <2>3. CASE Calls(Worker, FormatUp)
      <3>1. PICK n \in Nat : Replaced(Worker, n, FormatUp) /\ Topped(Worker, n)
        BY <1>0, <2>3, CallReplaces
      <3>2. CutsStay(Worker, n)
        BY <1>0, <2>1, <3>1, TopStays
      <3>3. Outer(Top(Worker))
        BY <2>1 DEF Outer
      <3>4. \A s \in Shared, d \in Nat : d < n => ~Has(stack[Worker], d, With("cut", s))
        BY <1>0, <3>1, <3>3, OuterFree
      <3> QED BY <1>0, <2>1, <3>1, <3>2, <3>4, MutexBase, LongLists
    <2> QED BY <2>1, <2>2, <2>3
  <1> QED BY <1>2, <1>3, <1>4, <1>5, <1>6 DEF WorkerStep

LEMMA MutexMain ==
  ASSUME TypeInv, StackInv, MutexInv, MainStep PROVE MutexInv'
  <1>0. Main \in Callers /\ \A op : NotCut(Do(op))
    BY StreamKinds, NotCuts
  <1>1. CASE DispatchInit
    <2>1. /\ Top(Main) = Do("init") /\ Calls(Main, InitUp)
          /\ UNCHANGED <<mutex, ptr, being_init, console>>
      BY <1>1, InitEffect
    <2>2. PICK n \in Nat : /\ Replaced(Main, n, InitUp) /\ Topped(Main, n)
                           /\ n = Height(stack[Main])
      BY <1>0, <2>1, CallReplaces
    <2>3. Placed(Main, n, Top(Main))
      BY <1>0, <2>1, <2>2, TopDepth, HeightIs DEF Calls
    <2>4. n = 1
      BY <2>1, <2>3 DEF Placed
    <2>5. \A s \in Shared, d \in Nat : d < n => ~Has(stack[Main], d, With("cut", s))
      BY <2>4 DEF Has
    <2> QED BY <1>0, <2>1, <2>2, <2>5, TopStays, MutexBase, LongLists
  <1>2. CASE RequestTheShutdown \/ WaitForCompletion \/ ClearDispatch
    <2>1. /\ Calls(Main, <<>>) /\ NotCut(Top(Main))
          /\ UNCHANGED <<mutex, ptr, being_init, console>>
      BY <1>0, <1>2, RequestEffect, JoinEffect, ClearEffect
    <2> QED BY <1>0, <2>1, MutexPlain, MutexLists
  <1> QED BY <1>1, <1>2 DEF MainStep

LEMMA MutexNext ==
  ASSUME TypeInv, StackInv, MutexInv, [Next]_vars PROVE MutexInv'
  <1>1. CASE \E t \in Callers : Step(t)
    BY <1>1, MutexStep
  <1>2. CASE WorkerStep \/ Wait
    BY <1>2, MutexWorker
  <1>3. CASE MainStep
    BY <1>3, MutexMain
  <1>4. ASSUME NEW t \in Threads, NEW s \in Shared \cup {t}, Event(t, s) PROVE MutexInv'
    <2>1. t \in Callers
      BY DEF Callers
    <2> QED BY <1>4, <2>1, EventEffect, MutexStart, MutexLists
  <1>5. CASE OnFlush \/ UnloadModule
    BY <1>5, StreamKinds, MainStartEffect, MutexStart, LongLists
  <1>6. CASE AuthReady \/ OnAuthUpdated
    <2>1. UNCHANGED <<stack, mutex, ptr, being_init, console>>
      BY <1>6, AuthEffect
    <2> QED BY <2>1 DEF MutexInv, OwnInv, LockInv, NestInv
  <1>7. CASE UNCHANGED vars
    BY <1>7 DEF MutexInv, OwnInv, LockInv, NestInv, vars, dispatch, sink, run, env
  <1> QED BY <1>1, <1>2, <1>3, <1>4, <1>5, <1>6, <1>7 DEF Next

(* The steps that there are at first. *)
LEMMA InitSteps ==
  ASSUME Init, NEW t \in Callers, NEW d \in Nat, NEW x, Has(stack[t], d, x)
  PROVE  x \in {Do("init"), Do("wait"), Do("check"), Do("drain")}
  <1>1. CASE t = Main
    <2>1. stack[t] = <<Do("init")>>
      BY <1>1, StreamKinds DEF Init
    <2> QED BY <2>1 DEF Has, Frame
  <1>2. CASE t = Worker
    <2>1. stack[t] = Iteration /\ t # Main
      BY <1>2, StreamKinds DEF Init
    <2>2. /\ Len(stack[t]) = 3 /\ Frame(stack[t], 1) = Do("wait")
          /\ Frame(stack[t], 2) = Do("check") /\ Frame(stack[t], 3) = Do("drain")
      BY <2>1 DEF Frame, Iteration
    <2> QED BY <2>2 DEF Has
  <1>3. CASE t \notin {Main, Worker}
    <2>1. stack[t] = <<>>
      BY <1>3 DEF Init
    <2> QED BY <2>1 DEF Has
  <1> QED BY <1>1, <1>2, <1>3

LEMMA MutexInit == Init => MutexInv
  <1> SUFFICES ASSUME Init PROVE MutexInv
    OBVIOUS
  <1>1. \A t \in Callers, d \in Nat : ~Has(stack[t], d, Do("own"))
    BY InitSteps DEF Do
  <1>2. \A t \in Callers, d \in Nat, s \in Shared : ~Has(stack[t], d, With("cut", s))
    BY InitSteps DEF Do, With
  <1>3. \A s \in Shared : mutex[s] \notin Callers
    BY StreamKinds DEF Init
  <1> QED BY <1>1, <1>2, <1>3 DEF MutexInv, OwnInv, LockInv, NestInv

(***************************************************************************)
(* However the flushes of any number of threads nest, threads never wait   *)
(* for each other in a circle of two, and a thread waits for its own mutex *)
(* only where the flush of the metrics makes or flushes its span stream.   *)
(***************************************************************************)
THEOREM DeadlockOnlyByReentryHolds == Spec => []DeadlockOnlyByReentry
  <1>1. Init => TypeInv /\ StackInv /\ MutexInv
    BY TypeInit, StackInit, MutexInit
  <1>2. TypeInv /\ StackInv /\ MutexInv /\ [Next]_vars => (TypeInv /\ StackInv /\ MutexInv)'
    BY TypeNext, StackNext, MutexNext
  <1>3. ASSUME TypeInv, MutexInv PROVE DeadlockOnlyByReentry
    <2> DEFINE h(t) == Len(stack[t])
    <2>1. ASSUME NEW t \in Callers, NEW u \in Callers, WaitsFor(t, u)
          PROVE  /\ Arg(t) \in Shared /\ mutex[Arg(t)] = u
                 /\ h(t) \in Nat /\ Has(stack[t], h(t), Top(t)) /\ NotCut(Top(t))
                 /\ Outer(Top(t)) \/ (Top(t) = With("queue", Metrics) /\ Arg(t) = Metrics)
      <3>1. CASE At(t, "queue")
        <4>1. /\ stack[t] # <<>> /\ Top(t) = With("queue", Arg(t)) /\ Arg(t) \in Shared
              /\ h(t) \in Nat \ {0}
          BY <1>3, <3>1, AtTop
        <4> QED BY <2>1, <4>1, NotCuts DEF WaitsFor, Has, Top, Outer, Shared
      <3>2. CASE At(t, "flush")
        <4>1. /\ stack[t] # <<>> /\ Top(t) = With("flush", Arg(t)) /\ Arg(t) \in Shared
              /\ h(t) \in Nat \ {0}
          BY <1>3, <3>2, AtTop
        <4>2. Outer(With("flush", Arg(t)))
          BY DEF Outer, With
        <4> QED BY <2>1, <4>1, <4>2, NotCuts DEF WaitsFor, Has, Top
      <3> QED BY <2>1, <3>1, <3>2 DEF WaitsFor
    <2>2. ASSUME NEW t \in Callers, NEW u \in Callers, WaitsFor(t, u), WaitsFor(u, t)
          PROVE  /\ Top(t) = With("queue", Metrics) /\ Arg(t) = Metrics
                 /\ \E d \in Nat : d < h(t) /\ Has(stack[t], d, With("cut", Arg(u)))
      <3>1. /\ mutex[Arg(u)] = t /\ Arg(u) \in Shared /\ h(t) \in Nat
            /\ Has(stack[t], h(t), Top(t)) /\ NotCut(Top(t))
        BY <2>1, <2>2
      <3>2. PICK d \in Nat : Has(stack[t], d, With("cut", Arg(u)))
        BY <1>3, <3>1 DEF MutexInv, LockInv
      <3>3. d <= h(t) /\ d # h(t)
        BY <3>1, <3>2 DEF Has, NotCut
      <3>4. d < h(t)
        BY <3>1, <3>3
      <3>5. ~Outer(Top(t))
        BY <1>3, <3>1, <3>2, <3>4 DEF MutexInv, NestInv
      <3> QED BY <2>1, <2>2, <3>2, <3>4, <3>5
    <2>3. ASSUME NEW t \in Callers, NEW u \in Callers, WaitsFor(t, u), WaitsFor(u, t)
          PROVE  t = u /\ Arg(t) = Metrics /\ (~ptr[t] \/ "spans" \in console)
      <3>1. /\ Top(t) = With("queue", Metrics) /\ Arg(t) = Metrics /\ Arg(u) = Metrics
            /\ mutex[Metrics] = u /\ mutex[Metrics] = t /\ h(t) \in Nat
            /\ Has(stack[t], h(t), Top(t)) /\ Metric(Top(t)) /\ Metrics \in Shared
        BY <2>1, <2>2, <2>3, StreamKinds DEF Metric
      <3>2. PICK d \in Nat : d < h(t) /\ Has(stack[t], d, With("cut", Metrics))
        BY <2>2, <2>3, <3>1
      <3>3. \/ "spans" \in console
            \/ \E f \in Nat : Has(stack[t], f, Do("own"))
        BY <1>3, <3>1, <3>2 DEF MutexInv, NestInv
      <3> QED BY <1>3, <3>1, <3>3 DEF MutexInv, OwnInv
    <2> QED BY <2>3 DEF DeadlockOnlyByReentry
  <1> QED BY <1>1, <1>2, <1>3, PTL DEF Spec

-----------------------------------------------------------------------------
(***************************************************************************)
(* The steps that pass messages on, and the others.                        *)
(***************************************************************************)

(* A step that holds no message and makes no stream. *)
Unheld(x) ==
    x # Do("own") /\ x # Do("increment") /\ x # Do("trigger") /\ x[1] # "enqueue"

(* A list without such steps, nor the cut of a thread stream. *)
Silent(up) ==
    \A k \in 1 .. Len(up) :
        /\ up[k] # Do("own") /\ up[k] # Do("increment") /\ up[k][1] # "enqueue"
        /\ \A u \in Callers : up[k] # With("cut", u)

LEMMA SilentLists ==
  /\ Silent(<<>>) /\ Silent(<<Do("span")>>) /\ Silent(<<Do("span"), Do("span")>>)
  /\ \A s : Silent(<<With("queue", s)>>)
  /\ \A s \in Shared : Silent(FlushUp(s))
  /\ Silent(SendUp) /\ Silent(SendMetricUp) /\ Silent(SendFlushUp)
  /\ Silent(IterationUp) /\ Silent(IterationFlushUp)
  /\ Silent(FlushAllUp) /\ Silent(UnloadUp) /\ Silent(FormatUp)
  <1>0. /\ \A s \in Shared, u \in Callers : With("cut", s) # With("cut", u)
        /\ \A u \in Callers : With("cut", Metrics) # With("cut", u)
    BY StreamKinds DEF With
  <1> USE DEF Silent, Do, With
  <1>1. /\ Silent(<<>>) /\ Silent(<<Do("span")>>) /\ Silent(<<Do("span"), Do("span")>>)
        /\ \A s : Silent(<<With("queue", s)>>)
    OBVIOUS
  <1>2. ASSUME NEW s \in Shared PROVE Silent(FlushUp(s))
    BY <1>0 DEF FlushUp
  <1>3. Silent(SendUp) /\ Silent(SendMetricUp)
    BY DEF SendUp, SendMetricUp
  <1>4. Silent(SendFlushUp)
    BY <1>0 DEF SendFlushUp
  <1>5. Silent(IterationUp)
    BY DEF IterationUp
  <1>6. Silent(IterationFlushUp)
    BY DEF IterationFlushUp
  <1>7. Silent(FlushAllUp)
    BY DEF FlushAllUp
  <1>8. Silent(UnloadUp)
    BY DEF UnloadUp
  <1>9. Silent(FormatUp)
    BY DEF FormatUp
  <1> QED BY <1>1, <1>2, <1>3, <1>4, <1>5, <1>6, <1>7, <1>8, <1>9

LEMMA Unhelds ==
  /\ \A s : Unheld(With("queue", s)) /\ Unheld(With("flush", s)) /\ Unheld(With("cut", s))
  /\ Unheld(Do("span")) /\ Unheld(Do("mark")) /\ Unheld(Do("flush_thread"))
  /\ Unheld(Do("init_thread")) /\ Unheld(Do("drain")) /\ Unheld(Do("check")) /\ Unheld(Do("wait"))
  /\ Unheld(Do("send")) /\ Unheld(Do("shutdown")) /\ Unheld(Do("join")) /\ Unheld(Do("clear"))
  /\ Unheld(Do("init")) /\ Unheld(Do("format"))
  BY DEF Unheld, Do, With

(* A step that passes no message on. *)
Ordinary ==
    /\ \E t \in Callers, n \in Nat : \E up :
          /\ Replaced(t, n, up) /\ Silent(up)
          /\ \A d \in Nat : \A x : d >= n /\ Has(stack[t], d, x) => Unheld(x)
    /\ UNCHANGED <<ptr, blocks, console>>

(* A step of t that begins to make its stream. *)
Announcing(t) ==
    /\ \E up \in {AllocUp(t), AllocThenUp(t, Do("span")), AllocThenUp(t, With("cut", t))} :
          Calls(t, up)
    /\ Unheld(Top(t))
    /\ UNCHANGED <<ptr, blocks, console>>

(* A step of t that goes on to cut its stream. *)
Cutting(t) ==
    /\ ptr[t] /\ Calls(t, <<With("cut", t)>>) /\ Unheld(Top(t))
    /\ UNCHANGED <<ptr, blocks, console>>

LEMMA OrdinaryCall ==
  ASSUME TypeInv, NEW t \in Callers, NEW up, Calls(t, up), Silent(up), Unheld(Top(t)),
         UNCHANGED <<ptr, blocks, console>>
  PROVE  Ordinary
  <1>1. PICK n \in Nat : Replaced(t, n, up) /\ Topped(t, n)
    BY CallReplaces
  <1>2. ASSUME NEW d \in Nat, NEW x, d >= n, Has(stack[t], d, x) PROVE Unheld(x)
    <2>1. d = n
      BY <1>1, <1>2 DEF Topped
    <2> QED BY <1>1, <1>2, <2>1 DEF Topped
  <1> QED BY <1>1, <1>2 DEF Ordinary

LEMMA OrdinaryStart ==
  ASSUME TypeInv, NEW t \in Callers, NEW up, Starts(t, up), Silent(up),
         UNCHANGED <<ptr, blocks, console>>
  PROVE  Ordinary
  BY StartReplaces DEF Ordinary

LEMMA StepKind ==
  ASSUME TypeInv, NEW t \in Callers, Step(t)
  PROVE  \/ Ordinary \/ Announcing(t) \/ Cutting(t)
         \/ CutBlock(t) \/ Own(t) \/ IncrementQueueSize(t) \/ Enqueue(t) \/ Trigger(t)
  <1>1. CASE QueueShared(t)
    <2>1. PICK s \in Shared : Queues(t, s)
      BY <1>1, QueueEffect
    <2>2. Unheld(Top(t)) /\ UNCHANGED <<ptr, blocks, console>>
      BY <2>1, Unhelds DEF Queues
    <2> QED BY <2>1, <2>2, OrdinaryCall, SilentLists DEF Queues, Pops
  <1>2. CASE FlushShared(t)
    <2>1. PICK s \in Shared : Flushes(t, s)
      BY <1>2, FlushEffect
    <2>2. Unheld(Top(t)) /\ UNCHANGED <<ptr, blocks, console>>
      BY <2>1, Unhelds DEF Flushes
    <2> QED BY <2>1, <2>2, OrdinaryCall, SilentLists DEF Flushes, Pops
  <1>3. CASE InitCurrentThreadStream(t)
    <2>1. Unheld(Top(t)) /\ UNCHANGED <<ptr, blocks, console>>
      BY <1>3, InitThreadEffect, Unhelds
    <2> QED BY <1>3, <2>1, InitThreadEffect, OrdinaryCall, SilentLists DEF Announces, Announcing
  <1>4. CASE QueueThreadEvent(t)
    <2>1. Unheld(Top(t)) /\ UNCHANGED <<ptr, blocks, console>>
      BY <1>4, SpanEffect, Unhelds
    <2> QED BY <1>4, <2>1, SpanEffect, OrdinaryCall, SilentLists
            DEF Announces, Announcing, CutsOwn, Cutting
  <1>5. CASE FlushCurrentThreadStream(t)
    <2>1. Unheld(Top(t)) /\ UNCHANGED <<ptr, blocks, console>>
      BY <1>5, FlushThreadEffect, Unhelds
    <2> QED BY <1>5, <2>1, FlushThreadEffect, OrdinaryCall, SilentLists
            DEF Announces, Announcing, CutsOwn, Cutting
  <1>6. CASE MarkStreamsFull(t)
    BY <1>6, MarkEffect, Unhelds, OrdinaryCall, SilentLists
  <1> QED BY <1>1, <1>2, <1>3, <1>4, <1>5, <1>6 DEF Step

LEMMA NextKind ==
  ASSUME TypeInv, StackInv, [Next]_vars
  PROVE  \/ Ordinary \/ DispatchInit \/ UNCHANGED <<stack, ptr, blocks, console>>
         \/ \E t \in Callers :
               \/ Announcing(t) \/ Cutting(t)
               \/ CutBlock(t) \/ Own(t) \/ IncrementQueueSize(t) \/ Enqueue(t) \/ Trigger(t)
  <1>0. Main \in Callers /\ Worker \in Callers /\ Main \in Threads
    BY StreamKinds, UnrealAssumption
  <1>1. CASE \E t \in Callers : Step(t)
    BY <1>1, StepKind
  <1>2. CASE Drain
    <2>1. Unheld(Top(Worker)) /\ UNCHANGED <<ptr, blocks, console>>
      BY <1>2, DrainEffect, Unhelds
    <2> QED BY <1>0, <1>2, <2>1, DrainEffect, OrdinaryCall, SilentLists
  <1>3. CASE SendBinaryRequest
    BY <1>0, <1>3, SendEffect, Unhelds, OrdinaryCall, SilentLists
  <1>4. CASE CheckShutdown
    <2>1. /\ Top(Worker) = Do("check") /\ stack[Worker] # <<>> /\ Unheld(Top(Worker))
          /\ UNCHANGED <<ptr, blocks, console>>
      BY <1>4, CheckEffect, Unhelds
    <2>2. CASE Calls(Worker, <<>>)
      BY <1>0, <2>1, <2>2, OrdinaryCall, SilentLists
    <2>3. CASE Moves(Worker, 0, <<>>)
      <3>1. /\ Replaced(Worker, 1, <<>>)
            /\ \A d \in Nat : \A x : Has(stack[Worker], d, x) => x = Do("wait") \/ x = Do("check")
        BY <2>1, <2>3, EndReplaces
      <3> QED BY <1>0, <2>1, <3>1, Unhelds, SilentLists DEF Ordinary
    <2> QED BY <1>4, <2>2, <2>3, CheckEffect
  <1>5. CASE Wait
    BY <1>0, <1>5, WaitEffect, Unhelds, OrdinaryCall, SilentLists
  <1>6. CASE RequestTheShutdown \/ WaitForCompletion \/ ClearDispatch
    <2>1. /\ Calls(Main, <<>>) /\ Unheld(Top(Main)) /\ UNCHANGED <<ptr, blocks, console>>
      BY <1>6, RequestEffect, JoinEffect, ClearEffect, Unhelds
    <2> QED BY <1>0, <2>1, OrdinaryCall, SilentLists
  <1>7. CASE OnFlush \/ UnloadModule
    BY <1>0, <1>7, MainStartEffect, OrdinaryStart, SilentLists
  <1>8. ASSUME NEW t \in Threads, NEW s \in Shared \cup {t}, Event(t, s) PROVE Ordinary
    <2>1. t \in Callers
      BY DEF Callers
    <2> QED BY <1>8, <2>1, EventEffect, OrdinaryStart, SilentLists
  <1>9. CASE AuthReady \/ OnAuthUpdated
    BY <1>9, AuthEffect
  <1>10. CASE UNCHANGED vars
    BY <1>10 DEF vars, dispatch, env
  <1>11. CASE FormatRequest
    BY <1>0, <1>11, FormatEffect, Unhelds, OrdinaryCall, SilentLists
  <1> QED BY <1>1, <1>2, <1>3, <1>4, <1>5, <1>6, <1>7, <1>8, <1>9, <1>10, <1>11
          DEF Next, WorkerStep, MainStep

-----------------------------------------------------------------------------
(***************************************************************************)
(* The way of the messages.                                                *)
(***************************************************************************)

(* What the worker holds comes before what is queued. *)
Line(c, q) == (IF c = None THEN <<>> ELSE <<c>>) \o q

LEMMA LineIs ==
  ASSUME NEW q \in Seq(Messages), NEW c \in Messages \cup {None}
  PROVE  /\ Line(c, q) \in Seq(Messages)
         /\ c = None => Line(c, q) = q
         /\ c # None => /\ Len(Line(c, q)) = Len(q) + 1 /\ Line(c, q)[1] = c
                        /\ \A i \in 1 .. Len(q) : Line(c, q)[i + 1] = q[i]
  <1>1. Len(q) \in Nat
    BY LenProperties
  <1>2. CASE c = None
    BY <1>2, ConcatEmptySeq DEF Line
  <1>3. CASE c # None
    <2> DEFINE p == <<c>>
               r == p \o q
    <2>1. p \in Seq(Messages) /\ Len(p) = 1 /\ p[1] = c
      BY <1>3
    <2>2. Line(c, q) = r
      BY <1>3 DEF Line
    <2> HIDE DEF p
    <2>3. /\ r \in Seq(Messages) /\ Len(r) = Len(p) + Len(q)
          /\ \A i \in 1 .. Len(r) : r[i] = IF i <= Len(p) THEN p[i] ELSE q[i - Len(p)]
      BY <2>1, ConcatProperties
    <2> HIDE DEF r
    <2>4. Len(r) = Len(q) + 1 /\ r[1] = c
      BY <1>1, <2>1, <2>3
    <2>5. ASSUME NEW i \in 1 .. Len(q) PROVE r[i + 1] = q[i]
      <3>1. i + 1 \in 1 .. Len(r) /\ ~(i + 1 <= Len(p)) /\ (i + 1) - Len(p) = i
        BY <1>1, <2>1, <2>4
      <3> QED BY <2>3, <3>1
    <2> QED BY <1>3, <2>2, <2>3, <2>4, <2>5
  <1> QED BY <1>2, <1>3

LEMMA WaitingIs ==
  ASSUME TypeInv
  PROVE  /\ Waiting = Line(current, Queue) /\ Queue \in Seq(Messages) /\ Len(Queue) \in Nat
         /\ current \in Messages \cup {None}
         /\ Waiting \in Seq(Messages) /\ Len(Waiting) \in Nat
         /\ DOMAIN Waiting = 1 .. Len(Waiting)
  <1>1. /\ Waiting = Line(current, Queue) /\ Queue \in Seq(Messages)
        /\ current \in Messages \cup {None}
    BY DEF Waiting, Line, TypeInv
  <1>2. Waiting \in Seq(Messages)
    BY <1>1, LineIs
  <1> QED BY <1>1, <1>2, LenProperties

(* How the messages that wait may change. *)
Stay    == Waiting' = Waiting /\ handled' \subseteq handled \cup {None} /\ handled \subseteq handled'
Join(m) == /\ Len(Waiting') = Len(Waiting) + 1
           /\ Waiting'[Len(Waiting) + 1] = m
           /\ \A i \in 1 .. Len(Waiting) : Waiting'[i] = Waiting[i]
           /\ handled' = handled
Leave   == /\ Len(Waiting) >= 1
           /\ Len(Waiting') = Len(Waiting) - 1
           /\ \A i \in 1 .. Len(Waiting) - 1 : Waiting'[i] = Waiting[i + 1]
           /\ handled' = handled \cup {Waiting[1]}

(* The worker looks at the queue with nothing in its hands. *)
LEMMA DrainFree ==
  ASSUME TypeInv, StackInv, ShutdownInv, Drain PROVE current = None
  <1>1. Top(Worker) = Do("drain") /\ Worker \in Callers /\ stack[Worker] # <<>>
    BY DrainEffect, StreamKinds DEF Calls
  <1>2. Placed(Worker, Len(stack[Worker]), Top(Worker))
    BY <1>1, TopDepth
  <1>3. Height(stack[Worker]) = 3
    BY <1>1, <1>2, HeightIs DEF Placed
  <1>4. ~Has(stack[Worker], 5, Do("send"))
    BY <1>3, HeightIs DEF Has
  <1> QED BY <1>4 DEF ShutdownInv

LEMMA EnqueueJoins ==
  ASSUME TypeInv, TypeInv', NEW t \in Callers, NEW m \in Messages, Enqueues(t, m)
  PROVE  Join(m)
  <1>1. /\ Queue \in Seq(Messages) /\ Len(Queue) \in Nat /\ Queue' = Append(Queue, m)
        /\ current' = current /\ handled' = handled
    BY LenProperties DEF TypeInv, Enqueues
  <1>2. /\ Len(Queue') = Len(Queue) + 1 /\ Queue'[Len(Queue) + 1] = m
        /\ \A i \in 1 .. Len(Queue) : Queue'[i] = Queue[i]
    BY <1>1, AppendProperties
  <1>3. Waiting = Line(current, Queue) /\ Waiting' = Line(current, Queue')
    BY <1>1 DEF Waiting, Line
  <1>4. Queue' \in Seq(Messages) /\ current \in Messages \cup {None}
    BY DEF TypeInv
  <1>5. CASE current = None
    <2>1. Waiting = Queue /\ Waiting' = Queue'
      BY <1>1, <1>5, <1>4, <1>3, LineIs
    <2> QED BY <1>1, <1>2, <2>1 DEF Join
  <1>6. CASE current # None
    <2>1. /\ Len(Waiting) = Len(Queue) + 1 /\ Waiting[1] = current
          /\ \A i \in 1 .. Len(Queue) : Waiting[i + 1] = Queue[i]
      BY <1>1, <1>6, <1>4, <1>3, LineIs
    <2>2. /\ Len(Waiting') = Len(Queue) + 2 /\ Waiting'[1] = current
          /\ \A i \in 1 .. Len(Queue) + 1 : Waiting'[i + 1] = Queue'[i]
      <3>1. /\ Len(Waiting') = Len(Queue') + 1 /\ Waiting'[1] = current
            /\ \A i \in 1 .. Len(Queue') : Waiting'[i + 1] = Queue'[i]
        BY <1>6, <1>4, <1>3, LineIs
      <3> QED BY <1>1, <1>2, <3>1
    <2>3. Waiting'[Len(Waiting) + 1] = m
      BY <1>1, <1>2, <2>1, <2>2
    <2>4. ASSUME NEW i \in 1 .. Len(Waiting) PROVE Waiting'[i] = Waiting[i]
      <3>1. CASE i = 1
        BY <2>1, <2>2, <3>1
      <3>2. CASE i # 1
        <4>1. i - 1 \in 1 .. Len(Queue) /\ i - 1 \in 1 .. Len(Queue) + 1 /\ (i - 1) + 1 = i
          BY <1>1, <2>1, <3>2
        <4> QED BY <1>2, <2>1, <2>2, <4>1
      <3> QED BY <3>1, <3>2
    <2> QED BY <1>1, <2>1, <2>2, <2>3, <2>4 DEF Join
  <1> QED BY <1>5, <1>6

LEMMA StepFlow ==
  ASSUME TypeInv, NEW t \in Callers, Step(t)
  PROVE  \/ UNCHANGED <<Queue, current, handled>>
         \/ \E m \in Messages : Enqueues(t, m)
  <1>1. CASE QueueShared(t) \/ FlushShared(t) \/ CutBlock(t)
    BY <1>1, QueueEffect, FlushEffect, CutEffect DEF Queues, Flushes, Cuts
  <1>2. CASE Own(t) \/ InitCurrentThreadStream(t) \/ QueueThreadEvent(t) \/ MarkStreamsFull(t)
    BY <1>2, OwnEffect, InitThreadEffect, SpanEffect, MarkEffect
  <1>3. CASE FlushCurrentThreadStream(t) \/ IncrementQueueSize(t) \/ Trigger(t)
    BY <1>3, FlushThreadEffect, IncrementEffect, TriggerEffect
  <1>4. CASE Enqueue(t)
    BY <1>4, EnqueueEffect
  <1> QED BY <1>1, <1>2, <1>3, <1>4 DEF Step

LEMMA DrainStays ==
  ASSUME TypeInv, TypeInv', StackInv, ShutdownInv, Drain PROVE Stay
  <1>1. current = None /\ Waiting = Line(current, Queue) /\ Waiting' = Line(current', Queue')
    BY DrainFree DEF Waiting, Line
  <1>2. handled' = handled /\ Queue \in Seq(Messages) /\ Queue' \in Seq(Messages)
    BY DrainEffect DEF TypeInv
  <1>3. CASE UNCHANGED <<Queue, current>>
    BY <1>1, <1>2, <1>3 DEF Stay
  <1>4. CASE Queue # <<>> /\ current' = Head(Queue) /\ Queue' = Tail(Queue)
    <2>1. /\ Head(Queue) \in Messages /\ Head(Queue) = Queue[1] /\ Len(Queue) \in Nat \ {0}
          /\ Tail(Queue) \in Seq(Messages) /\ Len(Tail(Queue)) = Len(Queue) - 1
          /\ \A i \in 1 .. Len(Queue) - 1 : Tail(Queue)[i] = Queue[i + 1]
      BY <1>2, <1>4, HeadTailProperties, LenProperties
    <2>2. current' # None /\ current' \in Messages
      BY <1>4, <2>1, NoneIsNoMessage
    <2>3. /\ Waiting' \in Seq(Messages) /\ Len(Waiting') = Len(Queue') + 1 /\ Waiting'[1] = current'
          /\ \A i \in 1 .. Len(Queue') : Waiting'[i + 1] = Queue'[i]
      BY <1>1, <1>2, <2>2, LineIs
    <2>4. Waiting = Queue
      BY <1>1, <1>2, LineIs
    <2>5. Len(Waiting') = Len(Waiting)
      BY <1>4, <2>1, <2>3, <2>4
    <2>6. ASSUME NEW i \in 1 .. Len(Waiting) PROVE Waiting'[i] = Waiting[i]
      <3>1. CASE i = 1
        BY <1>4, <2>1, <2>3, <2>4, <3>1
      <3>2. CASE i # 1
        <4>1. i - 1 \in 1 .. Len(Queue) - 1 /\ (i - 1) + 1 = i
          BY <2>1, <2>4, <3>2
        <4> QED BY <1>4, <2>1, <2>3, <2>4, <4>1
      <3> QED BY <3>1, <3>2
    <2>7. Waiting' = Waiting
      BY <1>2, <2>3, <2>4, <2>5, <2>6, SeqEqual
    <2> QED BY <1>2, <2>7 DEF Stay
  <1> QED BY <1>3, <1>4, DrainEffect

LEMMA Flow ==
  ASSUME TypeInv, TypeInv', StackInv, ShutdownInv, [Next]_vars
  PROVE  \/ Stay \/ Leave
         \/ \E t \in Callers, m \in Messages : Enqueues(t, m) /\ Join(m)
  <1>1. ASSUME UNCHANGED <<Queue, current, handled>> PROVE Stay
    BY <1>1 DEF Stay, Waiting
  <1>2. CASE \E t \in Callers : Step(t)
    BY <1>1, <1>2, StepFlow, EnqueueJoins
  <1>3. CASE Drain
    BY <1>3, DrainStays
  <1>4. CASE SendBinaryRequest
    <2>1. current' = None /\ handled' = handled \cup {current} /\ Queue' = Queue
      BY <1>4, SendEffect
    <2>2. Waiting = Line(current, Queue) /\ Waiting' = Line(None, Queue)
      BY <2>1 DEF Waiting, Line
    <2>3. Queue \in Seq(Messages) /\ current \in Messages \cup {None} /\ Len(Queue) \in Nat
      BY LenProperties DEF TypeInv
    <2>4. Waiting' = Queue
      BY <2>2, <2>3, LineIs
    <2>5. CASE current = None
      BY <2>1, <2>2, <2>5 DEF Stay
    <2>6. CASE current # None
      <3>1. /\ Len(Waiting) = Len(Queue) + 1 /\ Waiting[1] = current
            /\ \A i \in 1 .. Len(Queue) : Waiting[i + 1] = Queue[i]
        BY <2>2, <2>3, <2>6, LineIs
      <3>2. Len(Waiting) - 1 = Len(Queue) /\ Len(Waiting) >= 1
        BY <2>3, <3>1
      <3> QED BY <2>1, <2>4, <3>1, <3>2 DEF Leave
    <2> QED BY <2>5, <2>6
  <1>5. CASE FormatRequest \/ CheckShutdown \/ Wait
    BY <1>1, <1>5, FormatEffect, CheckEffect, WaitEffect
  <1>6. CASE MainStep
    BY <1>1, <1>6, InitEffect, RequestEffect, JoinEffect, ClearEffect DEF MainStep
  <1>7. CASE OnFlush \/ UnloadModule
    BY <1>1, <1>7, MainStartEffect
  <1>8. ASSUME NEW t \in Threads, NEW s \in Shared \cup {t}, Event(t, s) PROVE Stay
    <2>1. t \in Callers
      BY DEF Callers
    <2> QED BY <1>1, <1>8, <2>1, EventEffect
  <1>9. CASE AuthReady \/ OnAuthUpdated \/ UNCHANGED vars
    <2>1. UNCHANGED <<Queue, current, handled>>
      BY <1>9, AuthEffect DEF vars, sink, run
    <2> QED BY <1>1, <2>1
  <1> QED BY <1>2, <1>3, <1>4, <1>5, <1>6, <1>7, <1>8, <1>9 DEF Next, WorkerStep

-----------------------------------------------------------------------------
(***************************************************************************)
(* A thread stream is announced first.                                     *)
(***************************************************************************)

(* A thread cuts its own stream only, once it has it or is about to; it    *)
(* announces it before it has it, and has it before there is a block.      *)
TalkInv ==
    /\ \A t \in Callers, d \in Nat, u \in Callers : Has(stack[t], d, With("cut", u)) =>
          u = t /\ (ptr[t] \/ \E e \in Nat : d < e /\ Has(stack[t], e, Do("own")))
    /\ \A t \in Callers, d \in Nat, u \in Callers : Has(stack[t], d, With("enqueue", InitStream(u))) =>
          u = t /\ \E e \in Nat : e < d /\ Has(stack[t], e, Do("own"))
    /\ \A t \in Callers, d \in Nat, u \in Callers, i \in Nat :
          Has(stack[t], d, With("enqueue", Block(u, i))) => ptr[u]

(* The same holds of what waits. *)
AnnounceInv ==
    \A i \in 1 .. Len(Waiting), u \in Callers, k \in Nat : Waiting[i] = Block(u, k) =>
        ptr[u] /\ \A j \in 1 .. Len(Waiting) : i <= j => Waiting[j] # InitStream(u)

(* What up has to say, for TalkInv. *)
Talks(t, up) ==
    /\ \A k \in 1 .. Len(up), u \in Callers : up[k] = With("cut", u) =>
          u = t /\ (ptr'[t] \/ \E j \in 1 .. Len(up) : k < j /\ up[j] = Do("own"))
    /\ \A k \in 1 .. Len(up), u \in Callers : up[k] = With("enqueue", InitStream(u)) =>
          u = t /\ \E j \in 1 .. Len(up) : j < k /\ up[j] = Do("own")
    /\ \A k \in 1 .. Len(up), u \in Callers, i \in Nat :
          up[k] = With("enqueue", Block(u, i)) => ptr[u]

LEMMA TalkKept ==
  ASSUME TalkInv, NEW t \in Callers, NEW n, NEW up, Replaced(t, n, up), Talks(t, up),
         ptr'[t] \/ \A d \in Nat : d >= n => ~Has(stack[t], d, Do("own")),
         \A u \in Callers : ptr[u] => ptr'[u]
  PROVE  TalkInv'
  <1>0. n \in Nat /\ n >= 1
    BY DEF Replaced
  <1>1. ASSUME NEW k \in 1 .. Len(up), NEW x, up[k] = x
        PROVE  /\ k + (n - 1) \in Nat /\ k + (n - 1) >= n
               /\ Has(stack'[t], k + (n - 1), x)
    <2>1. k + (n - 1) \in Nat /\ k + (n - 1) >= n /\ (k + (n - 1)) - (n - 1) = k
      BY <1>0
    <2> QED BY <1>1, <2>1 DEF Replaced
  <1>2. ASSUME NEW u \in Callers, NEW d \in Nat, NEW x, Has(stack'[u], d, x)
        PROVE  \/ Has(stack[u], d, x) /\ (u # t \/ d < n)
               \/ u = t /\ d >= n /\ d - (n - 1) \in 1 .. Len(up) /\ up[d - (n - 1)] = x
    BY <1>0, <1>2 DEF Replaced
  <1>3. ASSUME NEW u \in Callers, NEW d \in Nat, NEW v \in Callers, Has(stack'[u], d, With("cut", v))
        PROVE  v = u /\ (ptr'[u] \/ \E e \in Nat : d < e /\ Has(stack'[u], e, Do("own")))
    <2>1. CASE Has(stack[u], d, With("cut", v)) /\ u # t
      BY <2>1 DEF TalkInv, Replaced
    <2>2. CASE Has(stack[u], d, With("cut", v)) /\ u = t /\ d < n
      <3>1. v = t /\ (ptr[t] \/ \E e \in Nat : d < e /\ Has(stack[t], e, Do("own")))
        BY <2>2 DEF TalkInv
      <3>2. CASE ptr'[t]
        BY <2>2, <3>1, <3>2
      <3>3. CASE ~ptr'[t]
        <4>1. PICK e \in Nat : d < e /\ Has(stack[t], e, Do("own"))
          BY <3>1, <3>3
        <4>2. e < n
          BY <1>0, <3>3, <4>1
        <4> QED BY <2>2, <3>1, <4>1, <4>2 DEF Replaced
      <3> QED BY <3>2, <3>3
    <2>3. CASE u = t /\ d >= n /\ d - (n - 1) \in 1 .. Len(up) /\ up[d - (n - 1)] = With("cut", v)
      <3> DEFINE k == d - (n - 1)
      <3>1. v = t /\ (ptr'[t] \/ \E j \in 1 .. Len(up) : k < j /\ up[j] = Do("own"))
        BY <2>3 DEF Talks
      <3>2. ASSUME NEW j \in 1 .. Len(up), k < j PROVE d < j + (n - 1)
        BY <1>0, <3>2
      <3> HIDE DEF k
      <3> QED BY <1>1, <2>3, <3>1, <3>2
    <2> QED BY <1>2, <1>3, <2>1, <2>2, <2>3
  <1>4. ASSUME NEW u \in Callers, NEW d \in Nat, NEW v \in Callers,
               Has(stack'[u], d, With("enqueue", InitStream(v)))
        PROVE  v = u /\ \E e \in Nat : e < d /\ Has(stack'[u], e, Do("own"))
    <2>1. CASE Has(stack[u], d, With("enqueue", InitStream(v))) /\ (u # t \/ d < n)
      <3>1. PICK e \in Nat : v = u /\ e < d /\ Has(stack[u], e, Do("own"))
        BY <2>1 DEF TalkInv
      <3>2. u # t \/ e < n
        BY <1>0, <2>1, <3>1
      <3> QED BY <3>1, <3>2 DEF Replaced
    <2>2. CASE /\ u = t /\ d >= n /\ d - (n - 1) \in 1 .. Len(up)
               /\ up[d - (n - 1)] = With("enqueue", InitStream(v))
      <3> DEFINE k == d - (n - 1)
      <3>1. PICK j \in 1 .. Len(up) : v = t /\ j < k /\ up[j] = Do("own")
        BY <2>2 DEF Talks
      <3>2. j + (n - 1) < d
        BY <1>0, <3>1
      <3> QED BY <1>1, <2>2, <3>1, <3>2
    <2> QED BY <1>2, <1>4, <2>1, <2>2
  <1>5. ASSUME NEW u \in Callers, NEW d \in Nat, NEW v \in Callers, NEW i \in Nat,
               Has(stack'[u], d, With("enqueue", Block(v, i)))
        PROVE  ptr'[v]
    <2>1. CASE Has(stack[u], d, With("enqueue", Block(v, i)))
      BY <2>1 DEF TalkInv
    <2>2. CASE d - (n - 1) \in 1 .. Len(up) /\ up[d - (n - 1)] = With("enqueue", Block(v, i))
      BY <2>2 DEF Talks
    <2> QED BY <1>2, <1>5, <2>1, <2>2
  <1> QED BY <1>3, <1>4, <1>5 DEF TalkInv

LEMMA MessagesDiffer ==
  /\ \A u, v : With("enqueue", u) = With("enqueue", v) => u = v
  /\ \A u, v : InitStream(u) = InitStream(v) => u = v
  /\ \A u, v, i, j : Block(u, i) = Block(v, j) => u = v /\ i = j
  /\ \A u, v, i : Block(u, i) # InitStream(v) /\ Block(u, i) # Process /\ InitStream(v) # Process
  BY DEF With, InitStream, Block, Process

LEMMA TalkLists ==
  ASSUME NEW t \in Callers
  PROVE  /\ \A up : Silent(up) => Talks(t, up)
         /\ Talks(t, InitUp) /\ Talks(t, AllocUp(t)) /\ Talks(t, AllocThenUp(t, Do("span")))
         /\ Talks(t, AllocThenUp(t, With("cut", t)))
         /\ ptr'[t] => Talks(t, <<With("cut", t)>>)
         /\ \A s \in Streams, i \in Nat : (s \in Callers => ptr[s]) => Talks(t, BlockUp(Block(s, i)))
  <1>0. /\ \A u, v : With("enqueue", u) # With("cut", v) /\ With("cut", u) # With("enqueue", v)
        /\ \A op \in Ops : \A u : Do(op) # With("cut", u) /\ Do(op) # With("enqueue", u)
        /\ \A u, v : With("cut", u) = With("cut", v) => u = v
        /\ \A u \in Callers : /\ InitStream(u) # InitStream(Log) /\ InitStream(u) # InitStream(Metrics)
        /\ {"span", "own", "trigger", "increment", "init_thread"} \subseteq Ops
    BY StreamKinds DEF With, Do, Ops, InitStream
  <1>1. ASSUME NEW up, Silent(up) PROVE Talks(t, up)
    BY <1>1 DEF Silent, Talks, With
  <1>2. Talks(t, InitUp)
    <2> DEFINE up == InitUp
    <2>1. /\ Len(up) = 10 /\ up[1] = Do("trigger") /\ up[2] = With("enqueue", InitStream(Metrics))
          /\ up[3] = Do("increment") /\ up[4] = Do("trigger")
          /\ up[5] = With("enqueue", InitStream(Log)) /\ up[6] = Do("increment")
          /\ up[7] = Do("trigger") /\ up[8] = With("enqueue", Process) /\ up[9] = Do("increment")
          /\ up[10] = Do("init_thread")
      BY DEF InitUp
    <2> HIDE DEF up
    <2>2. ASSUME NEW k \in 1 .. Len(up), NEW u \in Callers
          PROVE  /\ up[k] # With("cut", u) /\ up[k] # With("enqueue", InitStream(u))
                 /\ \A i \in Nat : up[k] # With("enqueue", Block(u, i))
      BY <1>0, <2>1, MessagesDiffer
    <2>3. Talks(t, up)
      BY <2>2 DEF Talks
    <2> QED BY <2>3 DEF up
  <1>3. Talks(t, AllocUp(t))
    <2> DEFINE up == AllocUp(t)
    <2>1. /\ Len(up) = 4 /\ up[1] = Do("own") /\ up[2] = Do("trigger")
          /\ up[3] = With("enqueue", InitStream(t)) /\ up[4] = Do("increment")
      BY DEF AllocUp
    <2> HIDE DEF up
    <2>2. ASSUME NEW k \in 1 .. Len(up), NEW u \in Callers
          PROVE  /\ up[k] # With("cut", u) /\ \A i \in Nat : up[k] # With("enqueue", Block(u, i))
                 /\ up[k] = With("enqueue", InitStream(u)) => u = t /\ k = 3
      BY <1>0, <2>1, MessagesDiffer
    <2>3. 1 \in 1 .. Len(up) /\ 1 < 3
      BY <2>1
    <2>4. Talks(t, up)
      BY <2>1, <2>2, <2>3 DEF Talks
    <2> QED BY <2>4 DEF up
  <1>4. ASSUME NEW x \in {Do("span"), With("cut", t)} PROVE Talks(t, AllocThenUp(t, x))
    <2> DEFINE up == AllocThenUp(t, x)
    <2>1. /\ Len(up) = 5 /\ up[1] = x /\ up[2] = Do("own") /\ up[3] = Do("trigger")
          /\ up[4] = With("enqueue", InitStream(t)) /\ up[5] = Do("increment")
      BY DEF AllocThenUp
    <2> HIDE DEF up
    <2>2. ASSUME NEW k \in 1 .. Len(up), NEW u \in Callers
          PROVE  /\ up[k] = With("cut", u) => u = t /\ k = 1
                 /\ \A i \in Nat : up[k] # With("enqueue", Block(u, i))
                 /\ up[k] = With("enqueue", InitStream(u)) => u = t /\ k = 4
      BY <1>0, <2>1, MessagesDiffer
    <2>3. 2 \in 1 .. Len(up) /\ 1 < 2 /\ 2 < 4
      BY <2>1
    <2>4. Talks(t, up)
      BY <2>1, <2>2, <2>3 DEF Talks
    <2> QED BY <2>4 DEF up
  <1>5. ASSUME ptr'[t] PROVE Talks(t, <<With("cut", t)>>)
    <2>1. \A u \in Callers : \A m : With("cut", t) # With("enqueue", m)
      BY <1>0
    <2> QED BY <1>0, <1>5, <2>1 DEF Talks
  <1>6. ASSUME NEW s \in Streams, NEW i \in Nat, s \in Callers => ptr[s]
        PROVE  Talks(t, BlockUp(Block(s, i)))
    <2> DEFINE up == BlockUp(Block(s, i))
    <2>1. /\ Len(up) = 5 /\ up[1] = Do("span") /\ up[2] = Do("trigger")
          /\ up[3] = With("enqueue", Block(s, i)) /\ up[4] = Do("increment") /\ up[5] = Do("span")
      BY DEF BlockUp
    <2> HIDE DEF up
    <2>2. ASSUME NEW k \in 1 .. Len(up), NEW u \in Callers
          PROVE  /\ up[k] # With("cut", u) /\ up[k] # With("enqueue", InitStream(u))
                 /\ \A j \in Nat : up[k] = With("enqueue", Block(u, j)) => u = s
      BY <1>0, <2>1, MessagesDiffer
    <2>3. Talks(t, up)
      BY <1>6, <2>2 DEF Talks
    <2> QED BY <2>3 DEF up
  <1> QED BY <1>1, <1>2, <1>3, <1>4, <1>5, <1>6

LEMMA TalkCall ==
  ASSUME TypeInv, TalkInv, NEW t \in Callers, NEW up, Calls(t, up), Talks(t, up),
         Top(t) # Do("own") \/ ptr'[t], \A u \in Callers : ptr[u] => ptr'[u]
  PROVE  TalkInv'
  <1>1. PICK n \in Nat : Replaced(t, n, up) /\ Topped(t, n)
    BY CallReplaces
  <1>2. ASSUME Top(t) # Do("own"), NEW d \in Nat, d >= n PROVE ~Has(stack[t], d, Do("own"))
    <2>1. Has(stack[t], d, Do("own")) => d = n
      BY <1>1, <1>2 DEF Topped
    <2> QED BY <1>1, <1>2, <2>1 DEF Topped
  <1> QED BY <1>1, <1>2, TalkKept

LEMMA TalkNext ==
  ASSUME TypeInv, StackInv, TalkInv, [Next]_vars PROVE TalkInv'
  <1>1. CASE Ordinary
    <2>0. PICK t \in Callers, n \in Nat : \E up :
              /\ Replaced(t, n, up) /\ Silent(up)
              /\ \A d \in Nat : \A x : d >= n /\ Has(stack[t], d, x) => Unheld(x)
      BY <1>1 DEF Ordinary
    <2>1. PICK up :
              /\ Replaced(t, n, up) /\ Silent(up)
              /\ \A d \in Nat : \A x : d >= n /\ Has(stack[t], d, x) => Unheld(x)
      BY <2>0
    <2>2. UNCHANGED ptr /\ Talks(t, up) /\ ~Unheld(Do("own"))
      BY <1>1, <2>1, TalkLists DEF Ordinary, Unheld
    <2> QED BY <2>1, <2>2, TalkKept
  <1>2. CASE DispatchInit
    <2>1. Main \in Callers /\ Do("init") # Do("own")
      BY StreamKinds DEF Do
    <2> QED BY <1>2, <2>1, InitEffect, TalkCall, TalkLists
  <1>3. CASE UNCHANGED <<stack, ptr>>
    BY <1>3 DEF TalkInv
  <1>4. ASSUME NEW t \in Callers, Announcing(t) \/ Cutting(t) PROVE TalkInv'
    <2>1. Top(t) # Do("own") /\ UNCHANGED ptr
      BY <1>4 DEF Announcing, Cutting, Unheld
    <2>2. CASE Announcing(t)
      BY <2>1, <2>2, TalkCall, TalkLists DEF Announcing
    <2>3. CASE Cutting(t)
      BY <2>1, <2>3, TalkCall, TalkLists DEF Cutting
    <2> QED BY <1>4, <2>2, <2>3
  <1>5. ASSUME NEW t \in Callers, CutBlock(t) PROVE TalkInv'
    <2>1. PICK s \in Streams : Cuts(t, s)
      BY <1>5, CutEffect
    <2>2. UNCHANGED ptr /\ Top(t) = With("cut", s) /\ Top(t) # Do("own") /\ blocks[s] + 1 \in Nat
      BY <2>1 DEF Cuts, With, Do, TypeInv
    <2>3. ASSUME s \in Callers, stack[t] # <<>> PROVE ptr[s]
      <3> DEFINE h == Len(stack[t])
      <3>1. h \in Nat /\ Has(stack[t], h, With("cut", s)) /\ \A e \in Nat : \A x : Has(stack[t], e, x) => e <= h
        BY <2>2, <2>3, Lengths DEF Has, Top
      <3>2. ~\E e \in Nat : h < e /\ Has(stack[t], e, Do("own"))
        BY <3>1
      <3> HIDE DEF h
      <3> QED BY <2>3, <3>1, <3>2 DEF TalkInv
    <2>4. CASE Calls(t, <<>>) \/ Calls(t, <<Do("span"), Do("span")>>)
      BY <2>2, <2>4, TalkCall, TalkLists, SilentLists
    <2>5. CASE Calls(t, BlockUp(Block(s, blocks[s] + 1)))
      BY <2>2, <2>3, <2>5, TalkCall, TalkLists DEF Calls
    <2> QED BY <2>1, <2>4, <2>5 DEF Cuts
  <1>6. ASSUME NEW t \in Callers, Own(t) PROVE TalkInv'
    <2>1. Calls(t, <<>>) /\ ptr'[t] /\ \A u \in Callers : ptr[u] => ptr'[u]
      BY <1>6, OwnEffect DEF TypeInv
    <2> QED BY <2>1, TalkCall, TalkLists, SilentLists
  <1>7. ASSUME NEW t \in Callers, IncrementQueueSize(t) PROVE TalkInv'
    <2>1. /\ UNCHANGED ptr /\ Top(t) # Do("own") /\ Metrics \in Shared
          /\ \E up : Calls(t, up) /\ Silent(up)
      BY <1>7, IncrementEffect, SilentLists, StreamKinds DEF Pops, Do
    <2> QED BY <2>1, TalkCall, TalkLists
  <1>8. ASSUME NEW t \in Callers, Enqueue(t) \/ Trigger(t) PROVE TalkInv'
    <2>1. UNCHANGED ptr /\ Top(t) # Do("own") /\ Calls(t, <<>>)
      <3>1. Do("trigger") # Do("own") /\ \A m : With("enqueue", m) # Do("own")
        BY DEF Do, With
      <3> QED BY <1>8, <3>1, EnqueueEffect, TriggerEffect DEF Enqueues
    <2> QED BY <2>1, TalkCall, TalkLists, SilentLists
  <1> QED BY <1>1, <1>2, <1>3, <1>4, <1>5, <1>6, <1>7, <1>8, NextKind

(* A thread that has its stream has it for good. *)
LEMMA PtrStays ==
  ASSUME TypeInv, StackInv, [Next]_vars PROVE \A u \in Callers : ptr[u] => ptr'[u]
  <1>1. CASE \E t \in Callers : Own(t)
    BY <1>1, OwnEffect DEF TypeInv
  <1>2. CASE UNCHANGED ptr
    BY <1>2
  <1>3. CASE \E t \in Callers : CutBlock(t) \/ IncrementQueueSize(t) \/ Enqueue(t) \/ Trigger(t)
    BY <1>3, CutEffect, IncrementEffect, EnqueueEffect, TriggerEffect DEF Cuts, Enqueues
  <1>4. CASE DispatchInit
    BY <1>4, InitEffect
  <1> QED BY <1>1, <1>2, <1>3, <1>4, NextKind DEF Ordinary, Announcing, Cutting

LEMMA AnnounceNext ==
  ASSUME TypeInv, TypeInv', StackInv, ShutdownInv, OwnInv, TalkInv, AnnounceInv, [Next]_vars
  PROVE  AnnounceInv'
  <1>0. Len(Waiting) \in Nat /\ \A u \in Callers : ptr[u] => ptr'[u]
    BY WaitingIs, PtrStays
  <1> SUFFICES ASSUME NEW i \in 1 .. Len(Waiting'), NEW u \in Callers, NEW k \in Nat,
                      Waiting'[i] = Block(u, k)
               PROVE  ptr'[u] /\ \A j \in 1 .. Len(Waiting') : i <= j => Waiting'[j] # InitStream(u)
    BY DEF AnnounceInv
  <1>1. CASE Stay
    BY <1>0, <1>1 DEF Stay, AnnounceInv
  <1>2. CASE Leave
    <2>1. i + 1 \in 1 .. Len(Waiting) /\ Waiting[i + 1] = Block(u, k)
      BY <1>0, <1>2 DEF Leave
    <2>2. ptr[u] /\ \A j \in 1 .. Len(Waiting) : i + 1 <= j => Waiting[j] # InitStream(u)
      BY <2>1 DEF AnnounceInv
    <2>3. ASSUME NEW j \in 1 .. Len(Waiting'), i <= j PROVE Waiting'[j] # InitStream(u)
      <3>1. j + 1 \in 1 .. Len(Waiting) /\ i + 1 <= j + 1 /\ Waiting'[j] = Waiting[j + 1]
        BY <1>0, <1>2, <2>3 DEF Leave
      <3> QED BY <2>2, <3>1
    <2> QED BY <1>0, <2>2, <2>3
  <1>3. ASSUME NEW t \in Callers, NEW m \in Messages, Enqueues(t, m), Join(m)
        PROVE  ptr'[u] /\ \A j \in 1 .. Len(Waiting') : i <= j => Waiting'[j] # InitStream(u)
    <2> DEFINE h == Len(stack[t])
    <2>1. h \in Nat /\ Has(stack[t], h, With("enqueue", m))
      BY <1>3, Lengths DEF Enqueues, Calls, Has, Top
    <2>2. CASE i = Len(Waiting) + 1
      <3>1. m = Block(u, k) /\ Len(Waiting') = Len(Waiting) + 1 /\ Waiting'[Len(Waiting) + 1] = m
        BY <1>3, <2>2 DEF Join
      <3>2. ptr[u]
        BY <2>1, <3>1 DEF TalkInv
      <3>3. ASSUME NEW j \in 1 .. Len(Waiting'), i <= j PROVE Waiting'[j] # InitStream(u)
        <4>1. j = i
          BY <1>0, <2>2, <3>1, <3>3
        <4> QED BY <4>1, MessagesDiffer
      <3> QED BY <1>0, <3>2, <3>3
    <2>3. CASE i # Len(Waiting) + 1
      <3>1. /\ i \in 1 .. Len(Waiting) /\ Len(Waiting') = Len(Waiting) + 1 /\ Waiting[i] = Block(u, k)
        BY <1>0, <1>3, <2>3 DEF Join
      <3>2. ptr[u] /\ \A j \in 1 .. Len(Waiting) : i <= j => Waiting[j] # InitStream(u)
        BY <3>1 DEF AnnounceInv
      <3>3. m # InitStream(u)
        <4> SUFFICES ASSUME m = InitStream(u) PROVE FALSE
          OBVIOUS
        <4>1. u = t /\ \E e \in Nat : Has(stack[t], e, Do("own"))
          BY <2>1 DEF TalkInv
        <4> QED BY <3>2, <4>1 DEF OwnInv
      <3>4. ASSUME NEW j \in 1 .. Len(Waiting'), i <= j PROVE Waiting'[j] # InitStream(u)
        <4>1. j \in 1 .. Len(Waiting) \/ j = Len(Waiting) + 1
          BY <1>0, <3>1
        <4> QED BY <1>3, <3>2, <3>3, <3>4, <4>1 DEF Join
      <3> QED BY <1>0, <3>2, <3>4
    <2> QED BY <2>2, <2>3
  <1> QED BY <1>1, <1>2, <1>3, Flow

LEMMA HoldsHas ==
  ASSUME TypeInv, NEW t \in Callers, NEW m, Holds(t, m)
  PROVE  \E d \in Nat : Has(stack[t], d, With("enqueue", m))
  <1> DEFINE q == stack[t]
  <1>1. q \in Seq(Steps) /\ Len(q) \in Nat /\ DOMAIN q = 1 .. Len(q)
    BY LenProperties DEF TypeInv
  <1>2. PICK i \in 1 .. Len(q) : q[i] = With("enqueue", m)
    BY <1>1 DEF Holds
  <1> HIDE DEF q
  <1>3. /\ Len(q) + 1 - i \in Nat /\ Len(q) + 1 - i \in 1 .. Len(q)
        /\ Len(q) + 1 - (Len(q) + 1 - i) = i
    BY <1>1, <1>2
  <1>4. Has(q, Len(q) + 1 - i, With("enqueue", m))
    BY <1>2, <1>3 DEF Has, Frame
  <1> QED BY <1>3, <1>4 DEF q

LEMMA TalkInit == Init => TalkInv /\ AnnounceInv
  <1> SUFFICES ASSUME Init PROVE TalkInv /\ AnnounceInv
    OBVIOUS
  <1>1. \A t \in Callers, d \in Nat : \A x : Has(stack[t], d, x) => x[1] \notin {"cut", "enqueue"}
    BY InitSteps DEF Do
  <1>2. TalkInv
    BY <1>1 DEF TalkInv, With
  <1>3. Waiting = <<>>
    BY ConcatEmptySeq DEF Init, Waiting
  <1>4. Len(Waiting) = 0
    BY <1>3
  <1> QED BY <1>2, <1>4 DEF AnnounceInv

(***************************************************************************)
(* The sink is told of a thread stream before it gets one of its blocks,   *)
(* in the order in which it sends, whichever thread flushes it, and even   *)
(* when the announcement records the thread's first spans.                 *)
(***************************************************************************)
THEOREM ThreadStreamFirstHolds == Spec => []ThreadStreamFirst
  <1> DEFINE Inv == /\ TypeInv /\ StackInv /\ ShutdownInv /\ MutexInv
                    /\ TalkInv /\ AnnounceInv
  <1>1. Init => Inv
    BY TypeInit, StackInit, ShutdownInit, MutexInit, TalkInit
  <1>2. Inv /\ [Next]_vars => Inv'
    BY TypeNext, StackNext, ShutdownNext, MutexNext, TalkNext, AnnounceNext DEF MutexInv
  <1>3. Inv => ThreadStreamFirst
    <2> SUFFICES ASSUME Inv, NEW i \in DOMAIN Waiting, NEW t \in Callers,
                        Waiting[i][1] = "Block", Waiting[i][2] = t
                 PROVE  /\ ~\E u \in Callers : Holds(u, InitStream(t))
                        /\ \A j \in i .. Len(Waiting) : Waiting[j] # InitStream(t)
      BY DEF ThreadStreamFirst
    <2>1. /\ i \in 1 .. Len(Waiting) /\ Waiting[i] \in Messages /\ Len(Waiting) \in Nat
      BY WaitingIs, ElementOfSeq
    <2>2. PICK k \in Nat : Waiting[i] = Block(t, k)
      BY <2>1 DEF Messages, Process, InitStream, Block
    <2>3. ptr[t] /\ \A j \in 1 .. Len(Waiting) : i <= j => Waiting[j] # InitStream(t)
      BY <2>1, <2>2 DEF AnnounceInv
    <2>4. ASSUME NEW u \in Callers, Holds(u, InitStream(t)) PROVE FALSE
      <3>1. PICK d \in Nat : Has(stack[u], d, With("enqueue", InitStream(t)))
        BY <2>4, HoldsHas
      <3>2. u = t /\ \E e \in Nat : Has(stack[u], e, Do("own"))
        BY <3>1 DEF TalkInv
      <3> QED BY <2>3, <3>2 DEF MutexInv, OwnInv
    <2>5. ASSUME NEW j \in i .. Len(Waiting) PROVE Waiting[j] # InitStream(t)
      <3>1. j \in 1 .. Len(Waiting) /\ i <= j
        BY <2>1
      <3> QED BY <2>3, <3>1
    <2> QED BY <2>4, <2>5
  <1> QED BY <1>1, <1>2, <1>3, PTL DEF Spec

-----------------------------------------------------------------------------
(***************************************************************************)
(* The places of a block.                                                  *)
(***************************************************************************)

(* The thread t has yet to enqueue a block of s, at depth d. *)
Keeps(q, d, s, i) == Has(q, d, With("enqueue", Block(s, i)))

(* A block is in one place at most, and was cut; and it is somewhere, if   *)
(* its kind is recorded.                                                   *)
BlockOK(s, i) ==
    /\ \A t \in Callers, d \in Nat : Keeps(stack[t], d, s, i) =>
          /\ \A u \in Callers, e \in Nat : Keeps(stack[u], e, s, i) => u = t /\ e = d
          /\ \A j \in 1 .. Len(Waiting) : Waiting[j] # Block(s, i)
          /\ Block(s, i) \notin handled
          /\ i <= blocks[s]
    /\ \A j \in 1 .. Len(Waiting) : Waiting[j] = Block(s, i) =>
          /\ \A k \in 1 .. Len(Waiting) : Waiting[k] = Block(s, i) => k = j
          /\ Block(s, i) \notin handled
          /\ i <= blocks[s]
    /\ Block(s, i) \in handled => i <= blocks[s]
    /\ 1 <= i /\ i <= blocks[s] /\ ShouldSampleBlock(s) =>
          \/ \E t \in Callers, d \in Nat : Keeps(stack[t], d, s, i)
          \/ \E j \in 1 .. Len(Waiting) : Waiting[j] = Block(s, i)
          \/ Block(s, i) \in handled

BlockInv == \A s \in Streams, i \in Nat : BlockOK(s, i)

(* The threads hold the same blocks. *)
HeldSame ==
    /\ \A t \in Callers, d \in Nat, s \in Streams, i \in Nat :
          Keeps(stack'[t], d, s, i) <=> Keeps(stack[t], d, s, i)
    /\ UNCHANGED <<blocks, console>>

NoBlock(up) ==
    \A k \in 1 .. Len(up), s \in Streams, i \in Nat : up[k] # With("enqueue", Block(s, i))

LEMMA NoBlocks ==
  /\ \A up : Silent(up) => NoBlock(up)
  /\ NoBlock(InitUp)
  /\ \A t \in Callers : /\ NoBlock(AllocUp(t)) /\ NoBlock(AllocThenUp(t, Do("span")))
                        /\ NoBlock(AllocThenUp(t, With("cut", t))) /\ NoBlock(<<With("cut", t)>>)
  <1>0. /\ \A u, v : With("cut", u) # With("enqueue", v)
        /\ \A op \in Ops : \A u : Do(op) # With("enqueue", u)
        /\ {"span", "own", "trigger", "increment", "init_thread"} \subseteq Ops
    BY DEF With, Do, Ops
  <1>1. ASSUME NEW up, Silent(up) PROVE NoBlock(up)
    BY <1>1 DEF Silent, NoBlock, With
  <1>2. NoBlock(InitUp)
    <2> DEFINE up == InitUp
    <2>1. /\ Len(up) = 10 /\ up[1] = Do("trigger") /\ up[2] = With("enqueue", InitStream(Metrics))
          /\ up[3] = Do("increment") /\ up[4] = Do("trigger")
          /\ up[5] = With("enqueue", InitStream(Log)) /\ up[6] = Do("increment")
          /\ up[7] = Do("trigger") /\ up[8] = With("enqueue", Process) /\ up[9] = Do("increment")
          /\ up[10] = Do("init_thread")
      BY DEF InitUp
    <2> HIDE DEF up
    <2>2. NoBlock(up)
      BY <1>0, <2>1, MessagesDiffer DEF NoBlock
    <2> QED BY <2>2 DEF up
  <1>3. ASSUME NEW t \in Callers PROVE NoBlock(AllocUp(t)) /\ NoBlock(<<With("cut", t)>>)
    BY <1>0, MessagesDiffer DEF NoBlock, AllocUp
  <1>4. ASSUME NEW t \in Callers, NEW x \in {Do("span"), With("cut", t)} PROVE NoBlock(AllocThenUp(t, x))
    <2>1. \A m : x # With("enqueue", m)
      BY <1>0
    <2> QED BY <1>0, <2>1, MessagesDiffer DEF NoBlock, AllocThenUp
  <1> QED BY <1>1, <1>2, <1>3, <1>4

LEMMA HeldKept ==
  ASSUME NEW t \in Callers, NEW n, NEW up, Replaced(t, n, up), NoBlock(up),
         \A d \in Nat : \A m : d >= n => ~Has(stack[t], d, With("enqueue", m)),
         UNCHANGED <<blocks, console>>
  PROVE  HeldSame
  <1> SUFFICES ASSUME NEW u \in Callers, NEW d \in Nat, NEW s \in Streams, NEW i \in Nat
               PROVE  Keeps(stack'[u], d, s, i) <=> Keeps(stack[u], d, s, i)
    BY DEF HeldSame
  <1>1. CASE u # t \/ d < n
    BY <1>1 DEF Replaced, Keeps
  <1>2. CASE u = t /\ d >= n
    <2>1. ~Keeps(stack[u], d, s, i)
      BY <1>2 DEF Keeps
    <2>2. ~Keeps(stack'[u], d, s, i)
      BY <1>2 DEF Replaced, NoBlock, Keeps
    <2> QED BY <2>1, <2>2
  <1> QED BY <1>1, <1>2 DEF Replaced

LEMMA HeldCall ==
  ASSUME TypeInv, NEW t \in Callers, NEW up, Calls(t, up), NoBlock(up), Top(t)[1] # "enqueue",
         UNCHANGED <<blocks, console>>
  PROVE  HeldSame
  <1>1. PICK n \in Nat : Replaced(t, n, up) /\ Topped(t, n)
    BY CallReplaces
  <1>2. ASSUME NEW d \in Nat, NEW m, d >= n PROVE ~Has(stack[t], d, With("enqueue", m))
    <2>1. Has(stack[t], d, With("enqueue", m)) => d = n
      BY <1>1, <1>2 DEF Topped
    <2>2. Has(stack[t], n, With("enqueue", m)) => With("enqueue", m)[1] # "enqueue"
      BY <1>1 DEF Topped
    <2> QED BY <2>1, <2>2 DEF With
  <1> QED BY <1>1, <1>2, HeldKept

LEMMA HeldNext ==
  ASSUME TypeInv, StackInv, [Next]_vars
  PROVE  HeldSame \/ \E t \in Callers : CutBlock(t) \/ \E m \in Messages : Enqueues(t, m)
  <1>0. /\ Do("init")[1] # "enqueue" /\ Do("own")[1] # "enqueue" /\ Do("trigger")[1] # "enqueue"
        /\ Do("increment")[1] # "enqueue"
    BY DEF Do
  <1>1. CASE Ordinary
    <2>0. PICK t \in Callers, n \in Nat : \E up :
              /\ Replaced(t, n, up) /\ Silent(up)
              /\ \A d \in Nat : \A x : d >= n /\ Has(stack[t], d, x) => Unheld(x)
      BY <1>1 DEF Ordinary
    <2>1. PICK up :
              /\ Replaced(t, n, up) /\ Silent(up)
              /\ \A d \in Nat : \A x : d >= n /\ Has(stack[t], d, x) => Unheld(x)
      BY <2>0
    <2>2. \A m : ~Unheld(With("enqueue", m))
      BY DEF Unheld, With
    <2> QED BY <1>1, <2>1, <2>2, HeldKept, NoBlocks DEF Ordinary
  <1>2. CASE DispatchInit
    BY <1>0, <1>2, InitEffect, HeldCall, NoBlocks, StreamKinds
  <1>3. CASE UNCHANGED <<stack, ptr, blocks, console>>
    BY <1>3 DEF HeldSame
  <1>4. ASSUME NEW t \in Callers, Announcing(t) \/ Cutting(t) PROVE HeldSame
    BY <1>4, HeldCall, NoBlocks DEF Announcing, Cutting, Unheld
  <1>5. ASSUME NEW t \in Callers, Own(t) \/ Trigger(t) PROVE HeldSame
    BY <1>0, <1>5, OwnEffect, TriggerEffect, HeldCall, NoBlocks, SilentLists
  <1>6. ASSUME NEW t \in Callers, IncrementQueueSize(t) PROVE HeldSame
    <2>1. /\ UNCHANGED <<blocks, console>> /\ Top(t)[1] # "enqueue" /\ Metrics \in Shared
          /\ \E up : Calls(t, up) /\ Silent(up)
      BY <1>0, <1>6, IncrementEffect, SilentLists, StreamKinds DEF Pops
    <2> QED BY <2>1, HeldCall, NoBlocks
  <1> QED BY <1>1, <1>2, <1>3, <1>4, <1>5, <1>6, NextKind, EnqueueEffect

(* What waits moves up by c places, into what is handled. *)
MovedUp(c) ==
    /\ c \in {0, 1}
    /\ \A j \in 1 .. Len(Waiting') : j + c \in 1 .. Len(Waiting) /\ Waiting'[j] = Waiting[j + c]
    /\ \A j \in 1 .. Len(Waiting) :
          \/ j - c \in 1 .. Len(Waiting') /\ Waiting'[j - c] = Waiting[j]
          \/ Waiting[j] \in handled'
    /\ handled \subseteq handled'
    /\ \A m \in Messages : m \in handled' =>
          m \in handled \/ (c = 1 /\ 1 \in 1 .. Len(Waiting) /\ Waiting[1] = m)

LEMMA StayMoves ==
  ASSUME TypeInv, Stay \/ Leave PROVE \E c \in {0, 1} : MovedUp(c)
  <1>1. Len(Waiting) \in Nat
    BY WaitingIs
  <1>2. CASE Stay
    <2>1. \A j \in 1 .. Len(Waiting) : j + 0 = j /\ j - 0 = j
      BY <1>1
    <2>2. MovedUp(0)
      BY <1>1, <1>2, <2>1, NoneIsNoMessage DEF Stay, MovedUp
    <2> QED BY <2>2
  <1>3. CASE Leave
    <2>1. ASSUME NEW j \in 1 .. Len(Waiting')
          PROVE  j + 1 \in 1 .. Len(Waiting) /\ Waiting'[j] = Waiting[j + 1]
      BY <1>1, <1>3 DEF Leave
    <2>2. ASSUME NEW j \in 1 .. Len(Waiting)
          PROVE  \/ j - 1 \in 1 .. Len(Waiting') /\ Waiting'[j - 1] = Waiting[j]
                 \/ Waiting[j] \in handled'
      <3>1. CASE j = 1
        BY <1>3, <3>1 DEF Leave
      <3>2. CASE j # 1
        <4>1. j - 1 \in 1 .. Len(Waiting) - 1 /\ (j - 1) + 1 = j
          BY <1>1, <3>2
        <4> QED BY <1>3, <4>1 DEF Leave
      <3> QED BY <3>1, <3>2
    <2>3. /\ handled \subseteq handled' /\ 1 \in 1 .. Len(Waiting)
          /\ \A m \in handled' : m \in handled \/ Waiting[1] = m
      BY <1>1, <1>3 DEF Leave
    <2>4. MovedUp(1)
      BY <2>1, <2>2, <2>3 DEF MovedUp
    <2> QED BY <2>4
  <1> QED BY <1>2, <1>3

LEMMA BlockMoved ==
  ASSUME TypeInv, NEW s \in Streams, NEW i \in Nat, BlockOK(s, i), HeldSame, NEW c, MovedUp(c)
  PROVE  BlockOK(s, i)'
  <1> DEFINE m == Block(s, i)
  <1>0. /\ Len(Waiting) \in Nat /\ m \in Messages /\ ShouldSampleBlock(s)' = ShouldSampleBlock(s)
        /\ blocks' = blocks
        /\ \A t \in Callers, d \in Nat : Keeps(stack'[t], d, s, i) <=> Keeps(stack[t], d, s, i)
    BY WaitingIs, MessageKinds DEF HeldSame, ShouldSampleBlock
  <1>1. \A j \in 1 .. Len(Waiting') : Waiting'[j] = m => j + c \in 1 .. Len(Waiting) /\ Waiting[j + c] = m
    BY DEF MovedUp
  <1>2. m \in handled' => m \in handled \/ \E j \in 1 .. Len(Waiting) : Waiting[j] = m
    BY <1>0 DEF MovedUp
  <1>3. ASSUME NEW t \in Callers, NEW d \in Nat, Keeps(stack'[t], d, s, i)
        PROVE  /\ \A u \in Callers, e \in Nat : Keeps(stack'[u], e, s, i) => u = t /\ e = d
               /\ \A j \in 1 .. Len(Waiting') : Waiting'[j] # m
               /\ m \notin handled'
               /\ i <= blocks'[s]
    BY <1>0, <1>1, <1>2, <1>3 DEF BlockOK
  <1>4. ASSUME NEW j \in 1 .. Len(Waiting'), Waiting'[j] = m
        PROVE  /\ \A k \in 1 .. Len(Waiting') : Waiting'[k] = m => k = j
               /\ m \notin handled'
               /\ i <= blocks'[s]
    <2>1. j + c \in 1 .. Len(Waiting) /\ Waiting[j + c] = m /\ c \in {0, 1}
      BY <1>1, <1>4 DEF MovedUp
    <2>2. /\ \A k \in 1 .. Len(Waiting) : Waiting[k] = m => k = j + c
          /\ m \notin handled /\ i <= blocks[s]
      BY <2>1 DEF BlockOK
    <2>3. ASSUME NEW k \in 1 .. Len(Waiting'), Waiting'[k] = m PROVE k = j
      <3>1. k + c = j + c
        BY <1>1, <2>2, <2>3
      <3> QED BY <2>1, <3>1
    <2>4. m \notin handled'
      <3>1. ASSUME c = 1, 1 \in 1 .. Len(Waiting), Waiting[1] = m PROVE FALSE
        <4>1. 1 = j + 1
          BY <2>2, <3>1
        <4> QED BY <1>4, <4>1
      <3> QED BY <1>0, <2>2, <3>1 DEF MovedUp
    <2> QED BY <1>0, <2>2, <2>3, <2>4
  <1>5. m \in handled' => i <= blocks'[s]
    BY <1>0, <1>2 DEF BlockOK
  <1>6. ASSUME 1 <= i, i <= blocks'[s], ShouldSampleBlock(s)'
        PROVE  \/ \E t \in Callers, d \in Nat : Keeps(stack'[t], d, s, i)
               \/ \E j \in 1 .. Len(Waiting') : Waiting'[j] = m
               \/ m \in handled'
    <2>1. CASE \E t \in Callers, d \in Nat : Keeps(stack[t], d, s, i)
      BY <1>0, <2>1
    <2>2. CASE \E j \in 1 .. Len(Waiting) : Waiting[j] = m
      BY <2>2 DEF MovedUp
    <2>3. CASE m \in handled
      BY <2>3 DEF MovedUp
    <2> QED BY <1>0, <1>6, <2>1, <2>2, <2>3 DEF BlockOK
  <1> QED BY <1>3, <1>4, <1>5, <1>6 DEF BlockOK

LEMMA BlockQueued ==
  ASSUME TypeInv, NEW s \in Streams, NEW i \in Nat, BlockOK(s, i), NEW t \in Callers,
         NEW x \in Messages, Enqueues(t, x), Join(x)
  PROVE  BlockOK(s, i)'
  <1> DEFINE m == Block(s, i)
             w == Len(Waiting)
  <1>0. /\ w \in Nat /\ ShouldSampleBlock(s)' = ShouldSampleBlock(s) /\ blocks' = blocks
        /\ handled' = handled /\ Len(Waiting') = w + 1 /\ Waiting'[w + 1] = x
        /\ \A j \in 1 .. w : Waiting'[j] = Waiting[j]
    BY WaitingIs DEF Enqueues, ShouldSampleBlock, Join
  <1>1. PICK n \in Nat : Replaced(t, n, <<>>) /\ Topped(t, n)
    BY CallReplaces DEF Enqueues
  <1>2. ASSUME NEW u \in Callers, NEW d \in Nat
        PROVE  Keeps(stack'[u], d, s, i) <=> Keeps(stack[u], d, s, i) /\ ~(u = t /\ d = n)
    <2>1. CASE u # t
      BY <1>1, <2>1 DEF Replaced
    <2>2. CASE u = t /\ d < n
      BY <1>1, <2>2 DEF Replaced, Keeps
    <2>3. CASE u = t /\ d >= n
      <3>1. ~Keeps(stack'[u], d, s, i)
        BY <1>1, <2>3 DEF Replaced, Keeps
      <3>2. Keeps(stack[u], d, s, i) => d = n
        BY <1>1, <2>3 DEF Topped, Keeps
      <3> QED BY <2>3, <3>1, <3>2
    <2> QED BY <2>1, <2>2, <2>3
  <1>3. Keeps(stack[t], n, s, i) <=> x = m
    BY <1>1, MessagesDiffer DEF Topped, Keeps, Enqueues
  <1>4. \A j \in 1 .. w + 1 : j \in 1 .. w \/ j = w + 1
    BY <1>0
  <1>5. 1 .. w \subseteq 1 .. w + 1 /\ w + 1 \in 1 .. w + 1 /\ w + 1 \notin 1 .. w
    BY <1>0
  <1> HIDE DEF w
  <1>6. CASE x = m
    <2>1. /\ \A u \in Callers, d \in Nat : Keeps(stack[u], d, s, i) => u = t /\ d = n
          /\ \A j \in 1 .. w : Waiting[j] # m
          /\ m \notin handled /\ i <= blocks[s]
      BY <1>1, <1>3, <1>6 DEF BlockOK, w
    <2>2. \A u \in Callers, d \in Nat : ~Keeps(stack'[u], d, s, i)
      BY <1>2, <2>1
    <2>3. \A j \in 1 .. w + 1 : Waiting'[j] = m <=> j = w + 1
      BY <1>0, <1>4, <1>5, <1>6, <2>1
    <2> QED BY <1>0, <1>5, <2>1, <2>2, <2>3 DEF BlockOK
  <1>7. CASE x # m
    <2>1. \A u \in Callers, d \in Nat : Keeps(stack'[u], d, s, i) <=> Keeps(stack[u], d, s, i)
      BY <1>2, <1>3, <1>7
    <2>2. \A j \in 1 .. w + 1 : Waiting'[j] = m <=> j \in 1 .. w /\ Waiting[j] = m
      BY <1>0, <1>4, <1>5, <1>7
    <2>3. \A j \in 1 .. w : Waiting[j] = m => j \in 1 .. w + 1 /\ Waiting'[j] = m
      BY <1>0, <1>5
    <2> QED BY <1>0, <2>1, <2>2, <2>3 DEF BlockOK, w
  <1> QED BY <1>6, <1>7

LEMMA BlockCut ==
  ASSUME TypeInv, BlockInv, NEW t \in Callers, CutBlock(t) PROVE BlockInv'
  <1>1. PICK s0 \in Streams : Cuts(t, s0)
    BY CutEffect
  <1>2. /\ UNCHANGED <<Queue, current, handled, console>> /\ Waiting' = Waiting
        /\ \A s : ShouldSampleBlock(s)' = ShouldSampleBlock(s)
        /\ Top(t)[1] # "enqueue" /\ blocks[s0] \in Nat /\ blocks[s0] + 1 \in Nat
    BY <1>1 DEF Cuts, Waiting, ShouldSampleBlock, With, TypeInv
  <1>3. CASE UNCHANGED blocks /\ Calls(t, <<>>)
    <2>1. HeldSame
      BY <1>2, <1>3, HeldCall, NoBlocks, SilentLists
    <2>2. Stay
      BY <1>2 DEF Stay
    <2>3. PICK c \in {0, 1} : MovedUp(c)
      BY <2>2, StayMoves
    <2> QED BY <2>1, <2>3, BlockMoved DEF BlockInv
  <1>4. CASE blocks' = [blocks EXCEPT ![s0] = blocks[s0] + 1]
    <2>0. /\ blocks'[s0] = blocks[s0] + 1 /\ \A s \in Streams : s # s0 => blocks'[s] = blocks[s]
          /\ \A s \in Streams : blocks[s] \in Nat
      BY <1>4 DEF TypeInv
    <2>1. \A i \in Nat : i <= blocks[s0] + 1 <=> i <= blocks[s0] \/ i = blocks[s0] + 1
      BY <1>2
    <2>2. ~(blocks[s0] + 1 <= blocks[s0])
      BY <1>2
    <2>3. CASE ~ShouldSampleBlock(s0) /\ Calls(t, <<Do("span"), Do("span")>>)
      <3>1. PICK n \in Nat : Replaced(t, n, <<Do("span"), Do("span")>>) /\ Topped(t, n)
        BY <2>3, CallReplaces
      <3>2. NoBlock(<<Do("span"), Do("span")>>)
        BY NoBlocks, SilentLists
      <3>3. \A u \in Callers, d \in Nat, s \in Streams, i \in Nat :
                Keeps(stack'[u], d, s, i) <=> Keeps(stack[u], d, s, i)
        <4> SUFFICES ASSUME NEW u \in Callers, NEW d \in Nat, NEW s \in Streams, NEW i \in Nat
                     PROVE  Keeps(stack'[u], d, s, i) <=> Keeps(stack[u], d, s, i)
          OBVIOUS
        <4>1. CASE u # t \/ d < n
          BY <3>1, <4>1 DEF Replaced, Keeps
        <4>2. CASE u = t /\ d >= n
          <5>1. ~Keeps(stack'[u], d, s, i)
            BY <3>1, <3>2, <4>2 DEF Replaced, NoBlock, Keeps
          <5>2. Keeps(stack[u], d, s, i) => With("enqueue", Block(s, i)) = Top(t)
            BY <3>1, <4>2 DEF Topped, Keeps
          <5> QED BY <1>2, <5>1, <5>2 DEF With
        <4> QED BY <3>1, <4>1, <4>2
      <3>4. ASSUME NEW s \in Streams, NEW i \in Nat PROVE BlockOK(s, i)'
        <4>1. i <= blocks[s] => i <= blocks'[s]
          BY <2>0, <2>1
        <4>2. ShouldSampleBlock(s) => (i <= blocks'[s] <=> i <= blocks[s])
          BY <2>0, <2>3
        <4> QED BY <1>2, <3>3, <4>1, <4>2 DEF BlockInv, BlockOK
      <3> QED BY <3>4 DEF BlockInv
    <2>4. CASE Calls(t, BlockUp(Block(s0, blocks[s0] + 1)))
      <3> DEFINE b == blocks[s0] + 1
                 up == BlockUp(Block(s0, b))
      <3>1. PICK n \in Nat : Replaced(t, n, up) /\ Topped(t, n)
        BY <2>4, CallReplaces
      <3>2. /\ Len(up) = 5 /\ up[1] = Do("span") /\ up[2] = Do("trigger")
            /\ up[3] = With("enqueue", Block(s0, b)) /\ up[4] = Do("increment") /\ up[5] = Do("span")
        BY DEF BlockUp
      <3>3. \A k \in 1 .. Len(up), s \in Streams, i \in Nat :
                up[k] = With("enqueue", Block(s, i)) <=> k = 3 /\ s = s0 /\ i = b
        <4>1. \A m : Do("span") # With("enqueue", m) /\ Do("trigger") # With("enqueue", m)
                     /\ Do("increment") # With("enqueue", m)
          BY DEF Do, With
        <4> HIDE DEF up, b
        <4> QED BY <3>2, <4>1, MessagesDiffer
      <3> HIDE DEF up, b
      <3>4. ASSUME NEW u \in Callers, NEW d \in Nat, NEW s \in Streams, NEW i \in Nat
            PROVE  Keeps(stack'[u], d, s, i) <=>
                      \/ Keeps(stack[u], d, s, i)
                      \/ u = t /\ d = n + 2 /\ s = s0 /\ i = b
        <4>1. CASE u # t
          BY <3>1, <4>1 DEF Replaced, Keeps
        <4>2. CASE u = t /\ d < n
          <5>1. d # n + 2
            BY <3>1, <4>2
          <5> QED BY <3>1, <4>2, <5>1 DEF Replaced, Keeps
        <4>3. CASE u = t /\ d >= n
          <5>1. Keeps(stack[u], d, s, i) => With("enqueue", Block(s, i)) = Top(t)
            BY <3>1, <4>3 DEF Topped, Keeps
          <5>2. ~Keeps(stack[u], d, s, i)
            BY <1>2, <5>1 DEF With
          <5>3. Keeps(stack'[u], d, s, i) <=>
                    d - (n - 1) \in 1 .. Len(up) /\ up[d - (n - 1)] = With("enqueue", Block(s, i))
            BY <3>1, <4>3 DEF Replaced, Keeps
          <5>4. d - (n - 1) \in 1 .. Len(up) /\ d - (n - 1) = 3 <=> d = n + 2
            BY <3>1, <3>2, <4>3
          <5> QED BY <3>3, <4>3, <5>2, <5>3, <5>4
        <4> QED BY <3>1, <4>1, <4>2, <4>3
      <3>5. ASSUME NEW s \in Streams, NEW i \in Nat, s # s0 \/ i # b PROVE BlockOK(s, i)'
        <4>1. /\ \A u \in Callers, d \in Nat : Keeps(stack'[u], d, s, i) <=> Keeps(stack[u], d, s, i)
              /\ i <= blocks'[s] <=> i <= blocks[s]
          BY <2>0, <2>1, <3>4, <3>5 DEF b
        <4> QED BY <1>2, <4>1 DEF BlockInv, BlockOK
      <3>6. ASSUME NEW i \in Nat, i = b PROVE BlockOK(s0, i)'
        <4>1. ~(i <= blocks[s0]) /\ i <= blocks'[s0] /\ n + 2 \in Nat
          BY <1>2, <2>0, <2>2, <3>1, <3>6 DEF b
        <4>2. /\ \A u \in Callers, d \in Nat : ~Keeps(stack[u], d, s0, i)
              /\ \A j \in 1 .. Len(Waiting) : Waiting[j] # Block(s0, i)
              /\ Block(s0, i) \notin handled
          BY <4>1 DEF BlockInv, BlockOK
        <4>3. \A u \in Callers, d \in Nat : Keeps(stack'[u], d, s0, i) <=> u = t /\ d = n + 2
          BY <3>4, <3>6, <4>1, <4>2
        <4> QED BY <1>2, <4>1, <4>2, <4>3 DEF BlockOK
      <3> QED BY <3>5, <3>6 DEF BlockInv
    <2> QED BY <1>1, <1>4, <2>3, <2>4, <1>3 DEF Cuts
  <1> QED BY <1>1, <1>3, <1>4 DEF Cuts

LEMMA BlockNext ==
  ASSUME TypeInv, TypeInv', StackInv, ShutdownInv, BlockInv, [Next]_vars PROVE BlockInv'
  <1>1. CASE \E t \in Callers : CutBlock(t)
    BY <1>1, BlockCut
  <1>2. ASSUME NEW t \in Callers, NEW m \in Messages, Enqueues(t, m) PROVE BlockInv'
    <2>1. Join(m)
      BY <1>2, EnqueueJoins
    <2> QED BY <1>2, <2>1, BlockQueued DEF BlockInv
  <1>3. CASE HeldSame /\ (Stay \/ Leave)
    <2>1. PICK c \in {0, 1} : MovedUp(c)
      BY <1>3, StayMoves
    <2> QED BY <1>3, <2>1, BlockMoved DEF BlockInv
  <1> QED BY <1>1, <1>2, <1>3, HeldNext, Flow

LEMMA HasHolds ==
  ASSUME TypeInv, NEW t \in Callers, NEW d, NEW m, Has(stack[t], d, With("enqueue", m))
  PROVE  Holds(t, m)
  <1> DEFINE q == stack[t]
  <1>1. q \in Seq(Steps) /\ Len(q) \in Nat /\ DOMAIN q = 1 .. Len(q)
    BY LenProperties DEF TypeInv
  <1>2. d \in 1 .. Len(q) /\ q[Len(q) + 1 - d] = With("enqueue", m)
    BY DEF Has, Frame
  <1> HIDE DEF q
  <1>3. Len(q) + 1 - d \in DOMAIN q
    BY <1>1, <1>2
  <1> QED BY <1>2, <1>3 DEF q, Holds

LEMMA BlockInit == Init => BlockInv
  <1> SUFFICES ASSUME Init, NEW s \in Streams, NEW i \in Nat PROVE BlockOK(s, i)
    BY DEF BlockInv
  <1>1. \A t \in Callers, d \in Nat : \A x : Has(stack[t], d, x) => x[1] # "enqueue"
    BY InitSteps DEF Do
  <1>2. \A t \in Callers, d \in Nat : ~Keeps(stack[t], d, s, i)
    BY <1>1 DEF Keeps, With
  <1>3. Waiting = <<>>
    BY ConcatEmptySeq DEF Init, Waiting
  <1>4. Len(Waiting) = 0
    BY <1>3
  <1>5. handled = {} /\ ~(1 <= i /\ i <= blocks[s])
    BY DEF Init
  <1> QED BY <1>2, <1>4, <1>5 DEF BlockOK

(***************************************************************************)
(* Every block that a stream has cut is in exactly one place, whichever    *)
(* flushes and nested flushes overtake one another on the way to the sink: *)
(* none is lost, and none is sent twice.                                   *)
(***************************************************************************)
THEOREM BlocksConservedHolds == Spec => []BlocksConserved
  <1> DEFINE Inv == TypeInv /\ StackInv /\ ShutdownInv /\ BlockInv
  <1>1. Init => Inv
    BY TypeInit, StackInit, ShutdownInit, BlockInit
  <1>2. Inv /\ [Next]_vars => Inv'
    BY TypeNext, StackNext, ShutdownNext, BlockNext
  <1>3. Inv => BlocksConserved
    <2> SUFFICES ASSUME Inv, NEW s \in Streams, NEW n \in 1 .. blocks[s]
                 PROVE  LET m == Block(s, n)
                            places == {<<"thread", t>> : t \in {t \in Callers : Holds(t, m)}}
                                        \cup {<<"waiting", i>> : i \in {i \in DOMAIN Waiting : Waiting[i] = m}}
                                        \cup {<<"handled", x>> : x \in {m} \cap handled}
                        IN  Cardinality(places) = 1 \/ (~ShouldSampleBlock(s) /\ places = {})
      BY DEF BlocksConserved
    <2> DEFINE m == Block(s, n)
               threads == {t \in Callers : Holds(t, m)}
               waits == {i \in DOMAIN Waiting : Waiting[i] = m}
               done == {m} \cap handled
               places == {<<"thread", t>> : t \in threads} \cup {<<"waiting", i>> : i \in waits}
                            \cup {<<"handled", x>> : x \in done}
    <2> SUFFICES Cardinality(places) = 1 \/ (~ShouldSampleBlock(s) /\ places = {})
      OBVIOUS
    <2>1. n \in Nat /\ 1 <= n /\ n <= blocks[s] /\ BlockOK(s, n) /\ DOMAIN Waiting = 1 .. Len(Waiting)
      BY WaitingIs, LenProperties DEF TypeInv, BlockInv
    <2>2. \A t \in Callers : t \in threads <=> \E d \in Nat : Keeps(stack[t], d, s, n)
      BY HoldsHas, HasHolds DEF Keeps
    <2> HIDE DEF m
    <2>3. ASSUME NEW x, places = {x} PROVE Cardinality(places) = 1
      BY <2>3, FS_Singleton
    <2>4. CASE threads # {}
      <3>1. PICK t \in Callers : t \in threads
        BY <2>4
      <3>2. /\ \A u \in Callers : u \in threads => u = t
            /\ \A j \in 1 .. Len(Waiting) : Waiting[j] # Block(s, n)
            /\ Block(s, n) \notin handled
        BY <2>1, <2>2, <3>1 DEF BlockOK
      <3>3. threads = {t} /\ waits = {} /\ done = {}
        BY <2>1, <3>1, <3>2 DEF m
      <3> HIDE DEF threads, waits, done
      <3>4. places = {<<"thread", t>>}
        BY <3>3
      <3> QED BY <2>3, <3>4
    <2>5. CASE threads = {} /\ waits # {}
      <3>1. PICK j \in 1 .. Len(Waiting) : Waiting[j] = m
        BY <2>1, <2>5
      <3>2. /\ \A k \in 1 .. Len(Waiting) : Waiting[k] = m => k = j
            /\ Block(s, n) \notin handled
        BY <2>1, <3>1 DEF BlockOK, m
      <3>3. waits = {j} /\ done = {}
        BY <2>1, <3>1, <3>2 DEF m
      <3> HIDE DEF threads, waits, done
      <3>4. places = {<<"waiting", j>>}
        BY <2>5, <3>3
      <3> QED BY <2>3, <3>4
    <2>6. CASE threads = {} /\ waits = {} /\ done # {}
      <3>1. done = {m}
        BY <2>6
      <3> HIDE DEF threads, waits, done
      <3>2. places = {<<"handled", m>>}
        BY <2>6, <3>1
      <3> QED BY <2>3, <3>2
    <2>7. CASE threads = {} /\ waits = {} /\ done = {}
      <3>1. /\ ~\E t \in Callers, d \in Nat : Keeps(stack[t], d, s, n)
            /\ ~\E j \in 1 .. Len(Waiting) : Waiting[j] = Block(s, n)
            /\ Block(s, n) \notin handled
        BY <2>1, <2>2, <2>7 DEF m
      <3>2. ~ShouldSampleBlock(s)
        BY <2>1, <3>1 DEF BlockOK
      <3> HIDE DEF threads, waits, done
      <3>3. places = {}
        BY <2>7
      <3> QED BY <3>2, <3>3
    <2> QED BY <2>4, <2>5, <2>6, <2>7
  <1> QED BY <1>1, <1>2, <1>3, PTL DEF Spec

-----------------------------------------------------------------------------
(***************************************************************************)
(* The event that wakes the worker up.                                     *)
(***************************************************************************)

(* Someone is about to set the event. *)
Signals == \E t \in Callers : stack[t] # <<>> /\ Top(t) = Do("trigger")

(* Past its look at the queue, the worker will be woken up. *)
WakeInv ==
    Height(stack[Worker]) \in {1, 2} /\ ready # "no" /\ Queue # <<>> =>
        WakeupThread \/ ready = "yes" \/ Signals

LEMMA WakeKept ==
  ASSUME WakeInv, NEW t \in Callers, \A u \in Callers : u # t => stack'[u] = stack[u],
         stack[t] = <<>> \/ Top(t) # Do("trigger"), UNCHANGED <<Queue, ready, WakeupThread>>,
         Height(stack'[Worker]) \in {1, 2} => Height(stack[Worker]) \in {1, 2}
  PROVE  WakeInv'
  <1>1. Signals => Signals'
    <2> SUFFICES ASSUME NEW u \in Callers, stack[u] # <<>>, Top(u) = Do("trigger") PROVE Signals'
      BY DEF Signals
    <2>1. stack'[u] # <<>> /\ Top(u)' = Do("trigger")
      BY DEF Top
    <2> QED BY <2>1 DEF Signals
  <1> QED BY <1>1 DEF WakeInv

LEMMA WakeStep ==
  ASSUME TypeInv, StackInv, WakeInv, NEW t \in Callers, Step(t) PROVE WakeInv'
  <1>0. Worker \in Callers
    BY StreamKinds
  <1>1. CASE Enqueue(t)
    <2>1. PICK m \in Messages : Enqueues(t, m)
      BY <1>1, EnqueueEffect
    <2> DEFINE n == Height(stack[t])
    <2>2. n = Len(stack[t]) /\ n \in Nat /\ n >= 1
      BY <2>1, Levels, HeightIs DEF Enqueues, Calls
    <2>3. Frame(stack[t], n) = With("enqueue", m) /\ With("enqueue", m)[1] = "enqueue"
      BY <2>1, <2>2 DEF Enqueues, Top, With
    <2>4. n >= 2 /\ Based(With("enqueue", m), Frame(stack[t], n - 1))
      <3>1. n # 1
        BY <2>2, <2>3 DEF StackInv, StackOK
      <3>2. \A i \in Nat : i >= 1 /\ i # 1 => i >= 2 /\ i \in 2 .. i
        OBVIOUS
      <3>3. n >= 2 /\ n \in 2 .. Len(stack[t])
        BY <2>2, <3>1, <3>2
      <3> QED BY <2>2, <2>3, <3>3 DEF StackInv, StackOK
    <2>5. Frame(stack[t], n - 1) = Do("trigger")
      BY <2>3, <2>4 DEF Based
    <2>6. Has(stack'[t], n - 1, Do("trigger")) /\ Height(stack'[t]) = n - 1
      <3>1. Has(stack[t], n - 1, Do("trigger")) /\ n - 1 < n /\ n - 1 \in Nat
        BY <2>2, <2>4, <2>5 DEF Has
      <3> QED BY <2>1, <3>1, Popped DEF Enqueues
    <2>7. stack'[t] # <<>> /\ Top(t)' = Do("trigger")
      BY <2>2, <2>4, <2>6, HeightIs DEF Has, Top
    <2> QED BY <2>7 DEF WakeInv, Signals
  <1>2. CASE Trigger(t)
    BY <1>2, TriggerEffect DEF WakeInv
  <1>3. CASE ~Enqueue(t) /\ ~Trigger(t)
    <2>1. MarksKept
      BY PlainKeeps
    <2>2. \A u \in Callers : u # t => stack'[u] = stack[u]
      BY PlainStep DEF Calls, Moves
    <2>3. Height(stack'[Worker]) \in {1, 2} => Height(stack[Worker]) \in {1, 2}
      <3>1. ASSUME Height(stack'[Worker]) >= 3 PROVE Height(stack'[Worker]) \notin {1, 2}
        BY <3>1
      <3> QED BY <2>1, <3>1 DEF MarksKept
    <2>4. UNCHANGED <<Queue, ready, WakeupThread>>
      BY <1>3, QueueEffect, FlushEffect, CutEffect, OwnEffect, InitThreadEffect, SpanEffect,
         MarkEffect, FlushThreadEffect, IncrementEffect
         DEF Step, Queues, Flushes, Cuts
    <2>5. Top(t) # Do("trigger")
      <3>1. /\ \A x : /\ With("queue", x) # Do("trigger") /\ With("flush", x) # Do("trigger")
                      /\ With("cut", x) # Do("trigger")
            /\ Do("own") # Do("trigger") /\ Do("init_thread") # Do("trigger")
            /\ Do("span") # Do("trigger") /\ Do("mark") # Do("trigger")
            /\ Do("flush_thread") # Do("trigger") /\ Do("increment") # Do("trigger")
        BY DEF With, Do
      <3> QED BY <1>3, <3>1, QueueEffect, FlushEffect, CutEffect, OwnEffect, InitThreadEffect,
                 SpanEffect, MarkEffect, FlushThreadEffect, IncrementEffect
              DEF Step, Queues, Flushes, Cuts
    <2> QED BY <2>2, <2>3, <2>4, <2>5, WakeKept
  <1> QED BY <1>1, <1>2, <1>3

LEMMA WakeWorker ==
  ASSUME TypeInv, TypeInv', StackInv, StackInv', WakeInv, WorkerStep \/ Wait PROVE WakeInv'
  <1>0. Worker \in Callers
    BY StreamKinds
  <1> DEFINE h == Height(stack[Worker])
             k == Height(stack'[Worker])
  <1>1. h \in Nat /\ k \in Nat
    <2>1. Height(stack[Worker]) \in Nat
      BY <1>0, Levels
    <2>2. stack'[Worker] \in Seq(Steps)
      BY <1>0 DEF TypeInv
    <2> QED BY <2>1, <2>2, HeightIs, LenProperties
  <1>2. \A up : Calls(Worker, up) => k = h - 1 + Len(up)
    BY HeightIs DEF Calls, Moves, Grown
  <1>3. \A op : Top(Worker) = Do(op) /\ stack[Worker] # <<>> => Placed(Worker, h, Do(op))
    BY <1>0, Levels
  <1>4. CASE Drain
    <2>1. h = 3
      BY <1>3, <1>4, DrainEffect DEF Calls, Placed
    <2>2. CASE ready = "no" \/ Queue = <<>>
      BY <1>4, <2>2, DrainEffect DEF WakeInv
    <2>3. CASE Calls(Worker, SendUp) \/ Calls(Worker, SendMetricUp) \/ Calls(Worker, SendFlushUp)
      <3>1. Len(SendUp) = 5 /\ Len(SendMetricUp) = 6 /\ Len(SendFlushUp) = 8
        BY DEF SendUp, SendMetricUp, SendFlushUp
      <3>2. k \notin {1, 2}
        BY <1>2, <2>1, <2>3, <3>1
      <3> QED BY <3>2 DEF WakeInv
    <2> QED BY <1>4, <2>2, <2>3, DrainEffect
  <1>5. CASE SendBinaryRequest
    <2>1. h = 5 /\ k = h - 1 + Len(<<>>)
      BY <1>2, <1>3, <1>5, SendEffect DEF Calls, Placed
    <2>2. k \notin {1, 2}
      BY <2>1
    <2> QED BY <2>2 DEF WakeInv
  <1>6. CASE CheckShutdown
    <2>1. h = 2 /\ Top(Worker) # Do("trigger") /\ UNCHANGED <<Queue, ready, WakeupThread>>
      BY <1>3, <1>6, CheckEffect DEF Placed, Do
    <2>2. \A u \in Callers : u # Worker => stack'[u] = stack[u]
      BY <1>6, CheckEffect DEF Calls, Moves
    <2> QED BY <1>0, <2>1, <2>2, WakeKept
  <1>7. CASE Wait
    <2>1. h = 1
      BY <1>3, <1>7, WaitEffect DEF Calls, Placed
    <2>2. Len(IterationUp) = 3 /\ Len(IterationFlushUp) = 7
      BY DEF IterationUp, IterationFlushUp
    <2>3. k = h - 1 + 3 \/ k = h - 1 + 7
      BY <1>2, <1>7, <2>2, WaitEffect
    <2>4. k \notin {1, 2}
      BY <2>1, <2>3
    <2> QED BY <2>4 DEF WakeInv
  <1>8. CASE FormatRequest
    <2>1. MarksKept /\ Top(Worker) # Do("trigger") /\ UNCHANGED <<Queue, ready, WakeupThread>>
      BY <1>0, <1>8, PlainKeeps, FormatEffect DEF Do
    <2>2. \A u \in Callers : u # Worker => stack'[u] = stack[u]
      BY <1>8, FormatEffect DEF Calls, Moves
    <2>3. k >= 3 => k \notin {1, 2}
      BY <1>1
    <2> QED BY <1>0, <2>1, <2>2, <2>3, WakeKept DEF MarksKept
  <1> QED BY <1>4, <1>5, <1>6, <1>7, <1>8 DEF WorkerStep

LEMMA WakeNext ==
  ASSUME TypeInv, TypeInv', StackInv, StackInv', WakeInv, [Next]_vars PROVE WakeInv'
  <1>0. Main \in Callers /\ Main # Worker /\ Worker \in Callers
    BY StreamKinds
  <1>1. CASE \E t \in Callers : Step(t)
    BY <1>1, WakeStep
  <1>2. CASE WorkerStep \/ Wait
    BY <1>2, WakeWorker
  <1>3. CASE MainStep
    <2>1. /\ UNCHANGED <<Queue, ready, WakeupThread>> /\ Top(Main) # Do("trigger")
          /\ \A u \in Callers : u # Main => stack'[u] = stack[u]
      <3>1. /\ Do("init") # Do("trigger") /\ Do("shutdown") # Do("trigger")
            /\ Do("join") # Do("trigger") /\ Do("clear") # Do("trigger")
        BY DEF Do
      <3>2. \A up : Calls(Main, up) => \A u \in Callers : u # Main => stack'[u] = stack[u]
        BY DEF Calls, Moves
      <3>3. CASE DispatchInit
        BY <3>1, <3>2, <3>3, InitEffect
      <3>4. CASE RequestTheShutdown
        BY <3>1, <3>2, <3>4, RequestEffect
      <3>5. CASE WaitForCompletion \/ ClearDispatch
        BY <3>1, <3>2, <3>5, JoinEffect, ClearEffect
      <3> QED BY <1>3, <3>3, <3>4, <3>5 DEF MainStep
    <2>2. stack'[Worker] = stack[Worker]
      BY <1>0, <2>1
    <2> QED BY <1>0, <2>1, <2>2, WakeKept
  <1>4. CASE OnFlush \/ UnloadModule
    <2>1. /\ UNCHANGED <<Queue, ready, WakeupThread>> /\ stack[Main] = <<>>
          /\ \A u \in Callers : u # Main => stack'[u] = stack[u]
      BY <1>4, MainStartEffect DEF Starts, Moves
    <2>2. stack'[Worker] = stack[Worker]
      BY <1>0, <2>1
    <2> QED BY <1>0, <2>1, <2>2, WakeKept
  <1>5. ASSUME NEW t \in Threads, NEW s \in Shared \cup {t}, Event(t, s) PROVE WakeInv'
    <2>0. t \in Callers /\ t # Worker
      BY UnrealAssumption DEF Callers
    <2>1. /\ UNCHANGED <<Queue, ready, WakeupThread>> /\ stack[t] = <<>>
          /\ \A u \in Callers : u # t => stack'[u] = stack[u]
      BY <1>5, <2>0, EventEffect DEF Starts, Moves
    <2>2. stack'[Worker] = stack[Worker]
      BY <1>0, <2>0, <2>1
    <2> QED BY <2>0, <2>1, <2>2, WakeKept
  <1>6. CASE AuthReady \/ OnAuthUpdated
    BY <1>6, AuthEffect DEF WakeInv
  <1>7. CASE UNCHANGED vars
    BY <1>7 DEF WakeInv, Signals, Top, vars, sink, env
  <1> QED BY <1>1, <1>2, <1>3, <1>4, <1>5, <1>6, <1>7 DEF Next

-----------------------------------------------------------------------------
(***************************************************************************)
(* The counter of the queue.                                               *)
(***************************************************************************)

(* A message that is counted, and is not queued yet: the step that queues  *)
(* it is at depth d, and the one that counts it is done.                   *)
Counted(q, d) ==
    /\ \E x : Has(q, d, x) /\ x[1] = "enqueue"
    /\ ~Has(q, d + 1, Do("increment"))

InFlight == {p \in Callers \X Nat : Counted(stack[p[1]], p[2])}

(* The counter is ahead of the queue by what the threads are about to add. *)
CountInv ==
    /\ IsFiniteSet(InFlight)
    /\ QueueSize = Len(Queue) + Cardinality(InFlight)

(* A list in which every message is counted before it is queued. *)
Counts(up) ==
    /\ 1 \in 1 .. Len(up) => up[1] # Do("increment")
    /\ \A k \in 1 .. Len(up) : up[k][1] = "enqueue" =>
          k + 1 \in 1 .. Len(up) /\ up[k + 1] = Do("increment")

LEMMA CountLists ==
  /\ \A up : Silent(up) => Counts(up)
  /\ Counts(InitUp)
  /\ \A m : Counts(BlockUp(m))
  /\ \A t : /\ Counts(AllocUp(t)) /\ Counts(AllocThenUp(t, Do("span")))
            /\ Counts(AllocThenUp(t, With("cut", t))) /\ Counts(<<With("cut", t)>>)
  <1>1. ASSUME NEW up, Silent(up) PROVE Counts(up)
    BY <1>1 DEF Silent, Counts
  <1> USE DEF Do, With
  <1>2. Counts(InitUp)
    <2> DEFINE up == InitUp
    <2>1. /\ Len(up) = 10 /\ up[1][1] = "trigger" /\ up[3] = Do("increment")
          /\ up[4][1] = "trigger" /\ up[6] = Do("increment") /\ up[7][1] = "trigger"
          /\ up[9] = Do("increment") /\ up[10][1] = "init_thread"
          /\ up[3][1] = "increment" /\ up[6][1] = "increment" /\ up[9][1] = "increment"
      BY DEF InitUp
    <2>2. up[1] # Do("increment")
      BY DEF InitUp
    <2> HIDE DEF up
    <2>3. Counts(up)
      BY <2>1, <2>2 DEF Counts
    <2> QED BY <2>3 DEF up
  <1>3. ASSUME NEW m PROVE Counts(BlockUp(m))
    BY DEF Counts, BlockUp
  <1>4. ASSUME NEW t PROVE Counts(AllocUp(t)) /\ Counts(<<With("cut", t)>>)
    BY DEF Counts, AllocUp
  <1>5. ASSUME NEW t PROVE /\ Counts(AllocThenUp(t, Do("span")))
                           /\ Counts(AllocThenUp(t, With("cut", t)))
    BY DEF Counts, AllocThenUp
  <1> QED BY <1>1, <1>2, <1>3, <1>4, <1>5

(* Nothing is added to what is in flight, and nothing is taken from it. *)
FlightSame == \A u \in Callers, d \in Nat : Counted(stack'[u], d) <=> Counted(stack[u], d)

LEMMA FlightKept ==
  ASSUME NEW t \in Callers, NEW n \in Nat, NEW up, Replaced(t, n, up), Counts(up),
         \A d \in Nat : \A x : d >= n /\ Has(stack[t], d, x) => x[1] # "enqueue" /\ x # Do("increment")
  PROVE  FlightSame
  <1> SUFFICES ASSUME NEW d \in Nat PROVE Counted(stack'[t], d) <=> Counted(stack[t], d)
    BY DEF Replaced, FlightSame
  <1>0. n >= 1 /\ d + 1 \in Nat
    BY DEF Replaced
  <1>1. CASE d < n - 1
    <2>1. d < n /\ d + 1 < n
      BY <1>0, <1>1
    <2> QED BY <1>0, <2>1 DEF Replaced, Counted
  <1>2. CASE d = n - 1
    <2>1. d < n /\ d + 1 = n /\ d + 1 >= n /\ (d + 1) - (n - 1) = 1
      BY <1>0, <1>2
    <2>2. ~Has(stack[t], d + 1, Do("increment"))
      BY <1>0, <2>1
    <2>3. ~Has(stack'[t], d + 1, Do("increment"))
      <3> SUFFICES ASSUME Has(stack'[t], d + 1, Do("increment")) PROVE FALSE
        OBVIOUS
      <3>1. 1 \in 1 .. Len(up) /\ up[1] = Do("increment")
        BY <1>0, <2>1 DEF Replaced
      <3> QED BY <3>1 DEF Counts
    <2> QED BY <2>1, <2>2, <2>3 DEF Replaced, Counted
  <1>3. CASE d >= n
    <2>1. ~Counted(stack[t], d)
      BY <1>3 DEF Counted
    <2>2. ~Counted(stack'[t], d)
      <3> SUFFICES ASSUME NEW x, Has(stack'[t], d, x), x[1] = "enqueue"
                   PROVE  Has(stack'[t], d + 1, Do("increment"))
        BY DEF Counted
      <3> DEFINE k == d - (n - 1)
      <3>1. k \in 1 .. Len(up) /\ up[k] = x
        BY <1>3 DEF Replaced
      <3>2. k + 1 \in 1 .. Len(up) /\ up[k + 1] = Do("increment")
        BY <3>1 DEF Counts
      <3>3. (d + 1) - (n - 1) = k + 1 /\ d + 1 >= n
        BY <1>3
      <3> HIDE DEF k
      <3> QED BY <1>0, <3>2, <3>3 DEF Replaced
    <2> QED BY <2>1, <2>2
  <1> QED BY <1>0, <1>1, <1>2, <1>3

LEMMA FlightCall ==
  ASSUME TypeInv, NEW t \in Callers, NEW up, Calls(t, up), Counts(up),
         Top(t)[1] # "enqueue", Top(t) # Do("increment")
  PROVE  FlightSame
  <1>1. PICK n \in Nat : Replaced(t, n, up) /\ Topped(t, n)
    BY CallReplaces
  <1>2. ASSUME NEW d \in Nat, NEW x, d >= n, Has(stack[t], d, x)
        PROVE  x[1] # "enqueue" /\ x # Do("increment")
    <2>1. d = n
      BY <1>1, <1>2 DEF Topped
    <2>2. x = Top(t)
      BY <1>1, <1>2, <2>1 DEF Topped
    <2> QED BY <2>2
  <1> QED BY <1>1, <1>2, FlightKept

LEMMA FlightNext ==
  ASSUME TypeInv, StackInv, [Next]_vars
  PROVE  \/ FlightSame
         \/ \E t \in Callers : IncrementQueueSize(t) \/ \E m \in Messages : Enqueues(t, m)
  <1>0. /\ Do("init")[1] # "enqueue" /\ Do("own")[1] # "enqueue" /\ Do("trigger")[1] # "enqueue"
        /\ Do("init") # Do("increment") /\ Do("own") # Do("increment")
        /\ Do("trigger") # Do("increment")
        /\ \A s : With("cut", s)[1] # "enqueue" /\ With("cut", s) # Do("increment")
    BY DEF Do, With
  <1>1. CASE Ordinary
    <2>0. PICK t \in Callers, n \in Nat : \E up :
              /\ Replaced(t, n, up) /\ Silent(up)
              /\ \A d \in Nat : \A x : d >= n /\ Has(stack[t], d, x) => Unheld(x)
      BY <1>1 DEF Ordinary
    <2>1. PICK up :
              /\ Replaced(t, n, up) /\ Silent(up)
              /\ \A d \in Nat : \A x : d >= n /\ Has(stack[t], d, x) => Unheld(x)
      BY <2>0
    <2>2. \A x : Unheld(x) => x[1] # "enqueue" /\ x # Do("increment")
      BY DEF Unheld
    <2> QED BY <2>1, <2>2, FlightKept, CountLists
  <1>2. CASE DispatchInit
    BY <1>0, <1>2, InitEffect, FlightCall, CountLists, StreamKinds
  <1>3. CASE UNCHANGED <<stack, ptr, blocks, console>>
    BY <1>3 DEF FlightSame
  <1>4. ASSUME NEW t \in Callers, Announcing(t) \/ Cutting(t) PROVE FlightSame
    BY <1>4, FlightCall, CountLists DEF Announcing, Cutting, Unheld
  <1>5. ASSUME NEW t \in Callers, Own(t) \/ Trigger(t) PROVE FlightSame
    BY <1>0, <1>5, OwnEffect, TriggerEffect, FlightCall, CountLists, SilentLists
  <1>6. ASSUME NEW t \in Callers, CutBlock(t) PROVE FlightSame
    <2>1. PICK s \in Streams : Cuts(t, s)
      BY <1>6, CutEffect
    <2> QED BY <1>0, <2>1, FlightCall, CountLists, SilentLists DEF Cuts
  <1> QED BY <1>1, <1>2, <1>3, <1>4, <1>5, <1>6, NextKind, EnqueueEffect

(* How the queue and its counter change together. *)
LEMMA CounterNext ==
  ASSUME TypeInv, [Next]_vars
  PROVE  \/ UNCHANGED <<Queue, QueueSize>>
         \/ Queue # <<>> /\ Queue' = Tail(Queue) /\ QueueSize' = QueueSize - 1
         \/ \E t \in Callers : IncrementQueueSize(t) \/ \E m \in Messages : Enqueues(t, m)
  <1>1. ASSUME NEW t \in Callers, Step(t), ~IncrementQueueSize(t), ~Enqueue(t)
        PROVE  UNCHANGED <<Queue, QueueSize>>
    BY <1>1, QueueEffect, FlushEffect, CutEffect, OwnEffect, InitThreadEffect, SpanEffect,
       MarkEffect, FlushThreadEffect, TriggerEffect
       DEF Step, Queues, Flushes, Cuts
  <1>2. CASE \E t \in Callers : Step(t)
    BY <1>1, <1>2, EnqueueEffect
  <1>3. CASE Drain
    BY <1>3, DrainEffect
  <1>4. CASE FormatRequest \/ SendBinaryRequest \/ CheckShutdown \/ Wait
    BY <1>4, FormatEffect, SendEffect, CheckEffect, WaitEffect
  <1>5. CASE MainStep
    BY <1>5, InitEffect, RequestEffect, JoinEffect, ClearEffect DEF MainStep
  <1>6. CASE OnFlush \/ UnloadModule
    BY <1>6, MainStartEffect
  <1>7. ASSUME NEW t \in Threads, NEW s \in Shared \cup {t}, Event(t, s)
        PROVE  UNCHANGED <<Queue, QueueSize>>
    <2>1. t \in Callers
      BY DEF Callers
    <2> QED BY <1>7, <2>1, EventEffect
  <1>8. CASE AuthReady \/ OnAuthUpdated
    BY <1>8, AuthEffect
  <1>9. CASE UNCHANGED vars
    BY <1>9 DEF vars, sink
  <1> QED BY <1>2, <1>3, <1>4, <1>5, <1>6, <1>7, <1>8, <1>9 DEF Next, WorkerStep

(* A message is counted: its thread goes on to queue it. *)
LEMMA FlightGrows ==
  ASSUME TypeInv, StackInv, NEW t \in Callers, IncrementQueueSize(t)
  PROVE  \E p : p \notin InFlight /\ InFlight' = InFlight \cup {p}
  <1>1. /\ Top(t) = Do("increment") /\ Metrics \in Shared
        /\ \E up : Calls(t, up) /\ Silent(up)
    BY IncrementEffect, SilentLists, StreamKinds DEF Pops
  <1>2. PICK up : Calls(t, up) /\ Silent(up)
    BY <1>1
  <1>3. PICK n \in Nat : Replaced(t, n, up) /\ Topped(t, n) /\ n = Height(stack[t])
    BY <1>2, CallReplaces
  <1>4. Has(stack[t], n, Do("increment")) /\ n >= 1
    BY <1>1, <1>3 DEF Topped
  <1>5. n >= 2 /\ \E x : Has(stack[t], n - 1, x) /\ x[1] = "enqueue"
    <2>1. n = Len(stack[t]) /\ Frame(stack[t], n) = Do("increment")
      BY <1>3, <1>4, HeightIs DEF Has
    <2>2. n # 1
      BY <1>4, <2>1 DEF StackInv, StackOK
    <2>3. n >= 2 /\ n \in 2 .. n /\ n - 1 \in 1 .. n
      BY <1>4, <2>2
    <2>4. Based(Do("increment"), Frame(stack[t], n - 1))
      BY <2>1, <2>3 DEF StackInv, StackOK
    <2> QED BY <2>1, <2>3, <2>4 DEF Based, Has
  <1> DEFINE p == <<t, n - 1>>
  <1>6. n - 1 \in Nat /\ (n - 1) + 1 = n
    BY <1>5
  <1>7. Counted(stack'[t], n - 1) /\ ~Counted(stack[t], n - 1)
    <2>1. ~Has(stack'[t], n, Do("increment"))
      BY <1>2, <1>3 DEF Replaced, Silent
    <2>2. n - 1 < n
      BY <1>6
    <2> QED BY <1>3, <1>4, <1>5, <1>6, <2>1, <2>2 DEF Counted, Replaced
  <1>8. ASSUME NEW u \in Callers, NEW d \in Nat, u # t \/ d # n - 1
        PROVE  Counted(stack'[u], d) <=> Counted(stack[u], d)
    <2>1. CASE u # t
      BY <1>3, <2>1 DEF Replaced
    <2>2. CASE u = t /\ d < n - 1
      <3>1. d < n /\ d + 1 < n /\ d + 1 \in Nat
        BY <1>6, <2>2
      <3> QED BY <1>3, <2>2, <3>1 DEF Replaced, Counted
    <2>3. CASE u = t /\ d >= n
      <3>1. ~Counted(stack'[u], d)
        BY <1>2, <1>3, <2>3 DEF Replaced, Silent, Counted
      <3>2. ~Counted(stack[u], d)
        <4> SUFFICES ASSUME NEW x, Has(stack[u], d, x), x[1] = "enqueue" PROVE FALSE
          BY DEF Counted
        <4>1. d = n
          BY <1>3, <2>3 DEF Topped
        <4>2. x = Do("increment")
          BY <1>1, <1>3, <2>3, <4>1 DEF Topped
        <4> QED BY <4>2 DEF Do
      <3> QED BY <3>1, <3>2
    <2> QED BY <1>6, <1>8, <2>1, <2>2, <2>3
  <1>9. p \notin InFlight
    BY <1>7 DEF InFlight
  <1>10. InFlight' = InFlight \cup {p}
    <2>1. \A q \in Callers \X Nat : q \in InFlight' <=> q \in InFlight \/ q = p
      BY <1>6, <1>7, <1>8 DEF InFlight
    <2>2. p \in Callers \X Nat /\ InFlight \subseteq Callers \X Nat /\ InFlight' \subseteq Callers \X Nat
      BY <1>6 DEF InFlight
    <2> QED BY <2>1, <2>2
  <1> QED BY <1>9, <1>10

(* A message that was counted is queued. *)
LEMMA FlightShrinks ==
  ASSUME TypeInv, NEW t \in Callers, NEW m \in Messages, Enqueues(t, m)
  PROVE  \E p \in InFlight : InFlight' = InFlight \ {p}
  <1>1. Calls(t, <<>>) /\ Top(t) = With("enqueue", m)
    BY DEF Enqueues
  <1>2. PICK n \in Nat : Replaced(t, n, <<>>) /\ Topped(t, n)
    BY <1>1, CallReplaces
  <1>3. /\ Has(stack[t], n, With("enqueue", m)) /\ n >= 1
        /\ With("enqueue", m)[1] = "enqueue" /\ With("enqueue", m) # Do("increment")
    BY <1>1, <1>2 DEF Topped, With, Do
  <1> DEFINE p == <<t, n>>
  <1>4. Counted(stack[t], n)
    <2>1. ~Has(stack[t], n + 1, Do("increment"))
      BY <1>2 DEF Topped
    <2> QED BY <1>3, <2>1 DEF Counted
  <1>5. ASSUME NEW u \in Callers, NEW d \in Nat
        PROVE  Counted(stack'[u], d) <=> Counted(stack[u], d) /\ ~(u = t /\ d = n)
    <2>1. CASE u # t
      BY <1>2, <2>1 DEF Replaced
    <2>2. CASE u = t /\ d < n
      <3>1. /\ d + 1 \in Nat /\ d # n
            /\ \A x : Has(stack'[t], d, x) <=> Has(stack[t], d, x)
        BY <1>2, <2>2 DEF Replaced
      <3>2. Has(stack'[t], d + 1, Do("increment")) <=> Has(stack[t], d + 1, Do("increment"))
        <4>1. CASE d + 1 < n
          BY <1>2, <3>1, <4>1 DEF Replaced
        <4>2. CASE d + 1 = n
          <5>1. ~Has(stack[t], n, Do("increment"))
            BY <1>1, <1>2, <1>3 DEF Topped
          <5>2. ~Has(stack'[t], n, Do("increment"))
            BY <1>2 DEF Replaced
          <5> QED BY <4>2, <5>1, <5>2
        <4> QED BY <2>2, <4>1, <4>2
      <3> QED BY <2>2, <3>1, <3>2 DEF Counted
    <2>3. CASE u = t /\ d >= n
      <3>1. ~Counted(stack'[u], d)
        <4>1. ASSUME NEW x PROVE ~Has(stack'[t], d, x)
          BY <1>2, <2>3 DEF Replaced
        <4> QED BY <2>3, <4>1 DEF Counted
      <3>2. Counted(stack[u], d) => d = n
        BY <1>2, <2>3 DEF Topped, Counted
      <3> QED BY <2>3, <3>1, <3>2
    <2> QED BY <2>1, <2>2, <2>3
  <1>6. p \in InFlight
    BY <1>4 DEF InFlight
  <1>7. InFlight' = InFlight \ {p}
    <2>1. \A q \in Callers \X Nat : q \in InFlight' <=> q \in InFlight /\ q # p
      BY <1>5 DEF InFlight
    <2>2. InFlight \subseteq Callers \X Nat /\ InFlight' \subseteq Callers \X Nat
      BY DEF InFlight
    <2> QED BY <2>1, <2>2
  <1> QED BY <1>6, <1>7

LEMMA CountNext ==
  ASSUME TypeInv, StackInv, CountInv, [Next]_vars PROVE CountInv'
  <1>0. /\ Queue \in Seq(Messages) /\ Len(Queue) \in Nat /\ QueueSize \in Int
        /\ IsFiniteSet(InFlight) /\ Cardinality(InFlight) \in Nat
        /\ QueueSize = Len(Queue) + Cardinality(InFlight)
    BY LenProperties, FS_CardinalityType DEF TypeInv, CountInv
  <1>1. ASSUME NEW t \in Callers, IncrementQueueSize(t) PROVE CountInv'
    <2>1. PICK p : p \notin InFlight /\ InFlight' = InFlight \cup {p}
      BY <1>1, FlightGrows
    <2>2. IsFiniteSet(InFlight') /\ Cardinality(InFlight') = Cardinality(InFlight) + 1
      BY <1>0, <2>1, FS_AddElement
    <2>3. QueueSize' = QueueSize + 1 /\ Queue' = Queue
      BY <1>1, IncrementEffect
    <2> QED BY <1>0, <2>2, <2>3 DEF CountInv
  <1>2. ASSUME NEW t \in Callers, NEW m \in Messages, Enqueues(t, m) PROVE CountInv'
    <2>1. PICK p \in InFlight : InFlight' = InFlight \ {p}
      BY <1>2, FlightShrinks
    <2>2. IsFiniteSet(InFlight') /\ Cardinality(InFlight') = Cardinality(InFlight) - 1
      BY <1>0, <2>1, FS_RemoveElement
    <2>3. QueueSize' = QueueSize /\ Len(Queue') = Len(Queue) + 1
      BY <1>0, <1>2, AppendProperties DEF Enqueues
    <2> QED BY <1>0, <2>2, <2>3 DEF CountInv
  <1>3. CASE FlightSame
    <2>1. InFlight' = InFlight
      BY <1>3 DEF FlightSame, InFlight
    <2>2. CASE UNCHANGED <<Queue, QueueSize>>
      BY <2>1, <2>2 DEF CountInv
    <2>3. CASE Queue # <<>> /\ Queue' = Tail(Queue) /\ QueueSize' = QueueSize - 1
      <3>1. Len(Queue') = Len(Queue) - 1
        BY <1>0, <2>3, HeadTailProperties
      <3> QED BY <1>0, <2>1, <2>3, <3>1 DEF CountInv
    <2> QED BY <1>1, <1>2, <2>2, <2>3, CounterNext
  <1> QED BY <1>1, <1>2, <1>3, FlightNext

LEMMA WakeInit == Init => WakeInv /\ CountInv
  <1> SUFFICES ASSUME Init PROVE WakeInv /\ CountInv
    OBVIOUS
  <1>1. Queue = <<>> /\ Len(Queue) = 0 /\ QueueSize = 0
    BY DEF Init
  <1>2. \A t \in Callers, d \in Nat : \A x : Has(stack[t], d, x) => x[1] # "enqueue"
    BY InitSteps DEF Do
  <1>3. InFlight = {}
    BY <1>2 DEF InFlight, Counted
  <1> QED BY <1>1, <1>3, FS_EmptySet DEF WakeInv, CountInv

(***************************************************************************)
(* The counter and the event follow the queue: the sink is busy as long as *)
(* a message waits, and a worker that is about to sleep over messages that *)
(* it could send is woken up.  A thread counts a message before it queues  *)
(* it and sets the event after, so that neither can be late.               *)
(***************************************************************************)
THEOREM NoLostWakeupHolds == Spec => []NoLostWakeup
  <1> DEFINE Inv == TypeInv /\ StackInv /\ WakeInv /\ CountInv
  <1>1. Init => Inv
    BY TypeInit, StackInit, WakeInit
  <1>2. Inv /\ [Next]_vars => Inv'
    BY TypeNext, StackNext, WakeNext, CountNext
  <1>3. Inv => NoLostWakeup
    <2> SUFFICES ASSUME Inv, Queue # <<>>
                 PROVE  /\ IsBusy
                        /\ At(Worker, "wait") /\ ready # "no"
                             => WakeupThread \/ ready = "yes" \/ \E t \in Callers : At(t, "trigger")
      BY DEF NoLostWakeup
    <2>1. IsBusy
      <3>1. Len(Queue) \in Nat /\ Len(Queue) # 0
        BY LenProperties, EmptySeq DEF TypeInv
      <3>2. Cardinality(InFlight) \in Nat /\ QueueSize = Len(Queue) + Cardinality(InFlight)
        BY FS_CardinalityType DEF CountInv
      <3> QED BY <3>1, <3>2 DEF IsBusy
    <2>2. ASSUME At(Worker, "wait"), ready # "no"
          PROVE  WakeupThread \/ ready = "yes" \/ \E t \in Callers : At(t, "trigger")
      <3>1. Worker \in Callers /\ stack[Worker] # <<>> /\ Top(Worker) = Do("wait")
        BY <2>2, AtTop, StreamKinds DEF Ops
      <3>2. Height(stack[Worker]) = 1
        BY <3>1, Levels DEF Placed
      <3>3. WakeupThread \/ ready = "yes" \/ Signals
        BY <2>2, <3>2 DEF WakeInv
      <3>4. Signals => \E t \in Callers : At(t, "trigger")
        BY TopAt DEF Signals, Do
      <3> QED BY <3>3, <3>4
    <2> QED BY <2>1, <2>2
  <1> QED BY <1>1, <1>2, <1>3, PTL DEF Spec

-----------------------------------------------------------------------------
(***************************************************************************)
(* The sink keeps the contract.                                            *)
(***************************************************************************)

(* The refinement mapping, by name. *)
Open    == stack[Worker] # <<>>
Pending == IF stack[Worker] = <<>> THEN <<>> ELSE Waiting

(* A worker whose thread has ended does not come back. *)
LEMMA OpenNext ==
  ASSUME TypeInv, StackInv, [Next]_vars
  PROVE  Open' => Open
  <1>0. Worker \in Callers /\ Main \in Callers /\ Main # Worker
    BY StreamKinds
  <1>1. CASE \E t \in Callers : Step(t)
    <2>1. MarksKept
      BY <1>1, PlainKeeps
    <2>2. \A q : Height(q) >= 3 => q # <<>>
      BY HeightIs
    <2> QED BY <2>1, <2>2 DEF MarksKept, Open
  <1>2. CASE WorkerStep \/ Wait
    <2>1. Open
      BY <1>2, DrainEffect, FormatEffect, SendEffect, CheckEffect, WaitEffect DEF WorkerStep, Calls, Open
    <2> QED BY <2>1
  <1>3. CASE MainStep
    <2>1. \A up : Calls(Main, up) => stack'[Worker] = stack[Worker]
      BY <1>0 DEF Calls, Moves
    <2>2. stack'[Worker] = stack[Worker]
      BY <1>3, <2>1, InitEffect, RequestEffect, JoinEffect, ClearEffect DEF MainStep
    <2> QED BY <2>2 DEF Open
  <1>4. CASE OnFlush \/ UnloadModule
    BY <1>0, <1>4, MainStartEffect DEF Starts, Moves, Open
  <1>5. ASSUME NEW t \in Threads, NEW s \in Shared \cup {t}, Event(t, s) PROVE Open' => Open
    <2>1. t \in Callers /\ t # Worker
      BY UnrealAssumption DEF Callers
    <2> QED BY <1>0, <1>5, <2>1, EventEffect DEF Starts, Moves, Open
  <1>6. CASE AuthReady \/ OnAuthUpdated
    BY <1>6, AuthEffect DEF Open
  <1>7. CASE UNCHANGED vars
    BY <1>7 DEF vars, Open
  <1> QED BY <1>1, <1>2, <1>3, <1>4, <1>5, <1>6, <1>7 DEF Next

LEMMA ContractInit == Init => Contract!Init
  <1> SUFFICES ASSUME Init PROVE Contract!Init
    OBVIOUS
  <1>1. stack[Worker] = Iteration
    BY StreamKinds DEF Init
  <1>2. Iteration # <<>>
    BY DEF Iteration
  <1>3. Open
    BY <1>1, <1>2 DEF Open
  <1>4. Waiting = <<>>
    BY ConcatEmptySeq DEF Init, Waiting
  <1> QED BY <1>3, <1>4 DEF Contract!Init, Pending, Open

LEMMA ContractNext ==
  ASSUME TypeInv, TypeInv', StackInv, ShutdownInv, [Next]_vars
  PROVE  [Contract!Next]_(Contract!contract)
  <1>0. /\ Waiting \in Seq(Messages) /\ Len(Waiting) \in Nat
        /\ Waiting' \in Seq(Messages) /\ Len(Waiting') \in Nat
    <2>1. Waiting' = Line(current', Queue') /\ Queue' \in Seq(Messages) /\ current' \in Messages \cup {None}
      BY DEF Waiting, Line, TypeInv
    <2>2. Waiting' \in Seq(Messages)
      BY <2>1, LineIs
    <2> QED BY <2>2, WaitingIs, LenProperties
  <1>1. CASE ~Open
    <2>1. ~Open'
      BY <1>1, OpenNext
    <2>2. Pending' = Pending
      BY <1>1, <2>1 DEF Pending, Open
    <2>3. stack'[Worker] = stack[Worker]
      BY <1>1, <2>1 DEF Open
    <2> QED BY <2>2, <2>3 DEF Contract!contract, Pending
  <1>2. CASE Open /\ ~Open'
    <2>1. Pending' = <<>>
      BY <1>2 DEF Pending, Open
    <2> QED BY <1>2, <2>1 DEF Contract!Next, Contract!Close, Open, Pending
  <1>3. CASE Open /\ Open'
    <2>1. Pending = Waiting /\ Pending' = Waiting' /\ (Open' <=> Open)
      BY <1>3 DEF Pending, Open
    <2>2. CASE Stay
      BY <2>1, <2>2 DEF Stay, Contract!contract, Open, Pending
    <2>3. CASE Leave
      <3>1. /\ Waiting # <<>> /\ Tail(Waiting) \in Seq(Messages)
            /\ Len(Tail(Waiting)) = Len(Waiting) - 1
            /\ \A i \in 1 .. Len(Waiting) - 1 : Tail(Waiting)[i] = Waiting[i + 1]
        <4>1. Waiting # <<>>
          BY <2>3 DEF Leave
        <4> QED BY <1>0, <4>1, HeadTailProperties
      <3>2. Waiting' = Tail(Waiting)
        BY <1>0, <2>3, <3>1, SeqEqual DEF Leave
      <3>3. Contract!Settle
        BY <1>3, <2>1, <3>1, <3>2 DEF Contract!Settle, Contract!Try, Contract!MaxTries, Open, Pending
      <3> QED BY <3>3 DEF Contract!Next
    <2>4. ASSUME NEW m \in Messages, Join(m) PROVE Contract!Accept
      <3>1. /\ Append(Waiting, m) \in Seq(Messages) /\ Len(Append(Waiting, m)) = Len(Waiting) + 1
            /\ \A i \in 1 .. Len(Waiting) : Append(Waiting, m)[i] = Waiting[i]
            /\ Append(Waiting, m)[Len(Waiting) + 1] = m
        BY <1>0, AppendProperties
      <3>2. \A i \in 1 .. Len(Waiting) + 1 : i \in 1 .. Len(Waiting) \/ i = Len(Waiting) + 1
        BY <1>0
      <3>3. Waiting' = Append(Waiting, m)
        BY <1>0, <2>4, <3>1, <3>2, SeqEqual DEF Join
      <3> QED BY <1>3, <2>1, <3>1, <3>3 DEF Contract!Accept, Open, Pending
    <2> QED BY <2>2, <2>3, <2>4, Flow DEF Contract!Next
  <1> QED BY <1>1, <1>2, <1>3

(***************************************************************************)
(* Like the Rust sink, the Unreal one is a first-in first-out queue served *)
(* by one thread that tries each message once and loses what it holds when *)
(* it ends: it implements SinkContract, with any number of blocks.         *)
(***************************************************************************)
THEOREM RefinesContract == Spec => ImplementsContract
  <1> DEFINE Inv == TypeInv /\ StackInv /\ ShutdownInv
  <1>1. Init => Inv /\ Contract!Init
    BY TypeInit, StackInit, ShutdownInit, ContractInit
  <1>2. Inv /\ [Next]_vars => Inv'
    BY TypeNext, StackNext, ShutdownNext
  <1>3. Inv /\ Inv' /\ [Next]_vars => [Contract!Next]_(Contract!contract)
    BY ContractNext
  <1> QED BY <1>1, <1>2, <1>3, PTL DEF Spec, ImplementsContract, Contract!Spec
=============================================================================
