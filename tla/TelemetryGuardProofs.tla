------------------------- MODULE TelemetryGuardProofs -------------------------
(***************************************************************************)
(* TLAPS proofs about TelemetryGuard, for any number of threads, builds    *)
(* and call sites and any configuration of levels: the sink lives as long  *)
(* as a guard, no event of a guard holder is lost, and levels are honoured *)
(* exactly.                                                                *)
(***************************************************************************)
EXTENDS TelemetryGuard, SequenceTheorems, WellFoundedInduction, TLAPS

(***************************************************************************)
(* What a thread may have ahead of it.                                     *)
(***************************************************************************)

(* A build that holds GLOBAL_WEAK_GUARD. *)
Locked == {<<"composite", "capture", "init", "thread">>, <<"capture", "init", "thread">>,
           <<"init", "thread">>}

(* A build that has a system guard. *)
Joined == {<<"thread">>}

(* A call of log!, at a call site. *)
Logging == {<<"load">>, <<"cas">>, <<"on_log", "push">>}

Pushing == {<<"push">>}

Drops == {<<"flush_thread">>, <<"flush_thread", "release">>, <<"release">>}

(* The shutdown by the last guard. *)
Closing == {<<"flush_log", "swap">>, <<"swap">>}

(* A build that panicked in the capture and still holds the mutex. *)
Poisoning == {<<"flush_log", "swap", "poison", "dead">>, <<"swap", "poison", "dead">>,
              <<"poison", "dead">>}

(* Other panics, and Ctrl-C. *)
Dying == {<<"flush_log", "swap", "dead">>, <<"swap", "dead">>, <<"dead">>,
          <<"flush_log", "swap", "flush_thread", "dead">>,
          <<"swap", "flush_thread", "dead">>, <<"flush_thread", "dead">>,
          <<"flush_log", "swap", "flush_thread", "release", "dead">>,
          <<"swap", "flush_thread", "release", "dead">>,
          <<"flush_thread", "release", "dead">>, <<"release", "dead">>,
          <<"flush_log", "swap", "exit">>, <<"swap", "exit">>, <<"exit">>}

(* Without a panic or Ctrl-C. *)
Calm == {<<>>} \cup Locked \cup Joined \cup Logging \cup Pushing \cup Drops \cup Closing

Programs == Calm \cup Poisoning \cup Dying

Cached == [generation : {0, 1}, filter : OptLevelFilter]

SinkNames == UNION {DOMAIN b.sinks : b \in Builds}

(* Every variable the arguments below look at stays in its domain. *)
GuardTypeOK ==
    /\ sink \in {"none", "real", "null"}
    /\ installed \in Builds \cup {None}
    /\ weak_lock \in Threads \cup {None}
    /\ holders \subseteq Threads
    /\ level_filter \in [Sites -> Cached]
    /\ guards \in [Threads -> {"none", "thread", "full"}]
    /\ pc \in [Threads -> Programs]
    /\ arg \in [Threads -> Builds \cup Sites \cup Foreign \cup {None}]
    /\ seen \in [Threads -> Cached]
    /\ took \in [Threads -> (SUBSET SinkNames) \cup {None}]

(* The mutex is held by the one thread that builds, and while it is held   *)
(* nobody has a system guard.                                              *)
LockInv ==
    /\ \A t \in Threads : pc[t] \in Locked => weak_lock = t /\ arg[t] \in Builds
    /\ \A t \in Threads : pc[t] \in Poisoning => weak_lock = t
    /\ weak_lock # None => holders = {}
    /\ holders # {} => sink # "none"
    /\ sink # "none" => installed \in Builds

(* The event a thread is logging. *)
CallInv ==
    \A t \in Threads :
        /\ pc[t] \in Logging => arg[t] \in Sites /\ sink # "none"
        /\ pc[t] \in Pushing => arg[t] \in Sites \cup Foreign /\ sink # "none"
        /\ pc[t] = <<"on_log", "push">> => level_filter[arg[t]].generation = GENERATION
        /\ pc[t] \in Pushing /\ took[t] # None =>
              took[t] = Takers(installed, MatchOf(arg[t]), arg[t].level)

(* A cached filter is that of the sink that was installed. *)
CacheInv ==
    \A x \in Sites : level_filter[x].generation = GENERATION =>
        sink # "none" /\ level_filter[x].filter = MatchOf(x)

CallsInv == GuardTypeOK /\ LockInv /\ CallInv /\ CacheInv

(* The max level, and the level of the capture, are those of the build at  *)
(* work or of the one that is installed.                                   *)
MaxLevelInv ==
    /\ \A t \in Threads : pc[t] \in Locked /\ pc[t] # <<"composite", "capture", "init", "thread">>
         => MAX_LEVEL_FILTER = CompositeMaxLevel(arg[t])
    /\ holders # {} => MAX_LEVEL_FILTER = CompositeMaxLevel(installed)
    /\ sink = "none" /\ subscriber # NotSet =>
         /\ weak_lock \in Threads
         /\ pc[weak_lock] = <<"init", "thread">>
         /\ subscriber = InteropMaxLevel(arg[weak_lock], CompositeMaxLevel(arg[weak_lock]))
    /\ holders # {} /\ subscriber # NotSet =>
         subscriber = InteropMaxLevel(installed, CompositeMaxLevel(installed))

(* What the steps ahead of a thread say of its guards: one that is in      *)
(* holders has, or is about to get, a full guard.                          *)
HolderOf(t, p, guard, set) ==
    /\ p \in Calm
    /\ t \in set <=> guard = "full" \/ p \in Joined
    /\ p \in Locked \cup Joined \cup Closing => guard = "none"
    /\ p = <<"flush_thread">> => guard = "thread"
    /\ p \in Drops /\ p # <<"flush_thread">> => guard = "full"

HolderInv == \A t \in Threads : HolderOf(t, pc[t], guards[t], holders)

(* The sink is replaced only when the last system guard is gone for good. *)
AliveInv ==
    /\ holders # {} => sink = "real" /\ \A t \in Threads : pc[t] \notin Closing
    /\ \A t \in Threads : pc[t] \in Closing => sink # "none"

(* By then the log stream has been flushed, and stays empty. *)
FlushedInv ==
    /\ lost_logs = {}
    /\ sink = "null" => logs = {}
    /\ \A t \in Threads : pc[t] = <<"swap">> => logs = {}
    /\ sink = "null" => \A t \in Threads : guards[t] = "thread" => t \in outlived
    /\ lost_spans \subseteq outlived

GuardInv == ~early => HolderInv /\ AliveInv /\ FlushedInv

-----------------------------------------------------------------------------
(* The programs, step by step. *)

LEMMA One == \A a : <<a>> # <<>> /\ Head(<<a>>) = a /\ Tail(<<a>>) = <<>>
  OBVIOUS

LEMMA Two == \A a, b : <<a, b>> # <<>> /\ Head(<<a, b>>) = a /\ Tail(<<a, b>>) = <<b>>
  OBVIOUS

LEMMA Three ==
    \A a, b, c : /\ <<a, b, c>> # <<>> /\ Head(<<a, b, c>>) = a
                 /\ Tail(<<a, b, c>>) = <<b, c>>
  OBVIOUS

LEMMA Four ==
    \A a, b, c, d : /\ <<a, b, c, d>> # <<>> /\ Head(<<a, b, c, d>>) = a
                    /\ Tail(<<a, b, c, d>>) = <<b, c, d>>
  OBVIOUS

LEMMA Five ==
    \A a, b, c, d, e : /\ <<a, b, c, d, e>> # <<>> /\ Head(<<a, b, c, d, e>>) = a
                       /\ Tail(<<a, b, c, d, e>>) = <<b, c, d, e>>
  OBVIOUS

LEMMA LockedSteps ==
    ASSUME NEW p \in Locked
    PROVE  /\ p # <<>>
           /\ \/ /\ p = <<"composite", "capture", "init", "thread">> /\ Head(p) = "composite"
                 /\ Tail(p) = <<"capture", "init", "thread">>
              \/ /\ p = <<"capture", "init", "thread">> /\ Head(p) = "capture"
                 /\ Tail(p) = <<"init", "thread">>
              \/ /\ p = <<"init", "thread">> /\ Head(p) = "init"
                 /\ Tail(p) = <<"thread">>
  <1>1. CASE p = <<"composite", "capture", "init", "thread">>
    BY <1>1, Four
  <1>2. CASE p = <<"capture", "init", "thread">>
    BY <1>2, Three
  <1>3. CASE p = <<"init", "thread">>
    BY <1>3, Two
  <1> QED BY <1>1, <1>2, <1>3 DEF Locked

LEMMA CallSteps ==
    ASSUME NEW p \in Joined \cup Logging \cup Pushing
    PROVE  /\ p # <<>>
           /\ \/ p = <<"thread">> /\ Head(p) = "thread" /\ Tail(p) = <<>>
              \/ p = <<"load">> /\ Head(p) = "load" /\ Tail(p) = <<>>
              \/ p = <<"cas">> /\ Head(p) = "cas" /\ Tail(p) = <<>>
              \/ p = <<"on_log", "push">> /\ Head(p) = "on_log" /\ Tail(p) = <<"push">>
              \/ p = <<"push">> /\ Head(p) = "push" /\ Tail(p) = <<>>
  <1>1. CASE p = <<"thread">>
    BY <1>1, One
  <1>2. CASE p = <<"load">>
    BY <1>2, One
  <1>3. CASE p = <<"cas">>
    BY <1>3, One
  <1>4. CASE p = <<"on_log", "push">>
    BY <1>4, Two
  <1>5. CASE p = <<"push">>
    BY <1>5, One
  <1> QED BY <1>1, <1>2, <1>3, <1>4, <1>5 DEF Joined, Logging, Pushing

LEMMA DropSteps ==
    ASSUME NEW p \in Drops \cup Closing
    PROVE  /\ p # <<>>
           /\ \/ p = <<"flush_thread">> /\ Head(p) = "flush_thread" /\ Tail(p) = <<>>
              \/ /\ p = <<"flush_thread", "release">> /\ Head(p) = "flush_thread"
                 /\ Tail(p) = <<"release">>
              \/ p = <<"release">> /\ Head(p) = "release" /\ Tail(p) = <<>>
              \/ p = <<"flush_log", "swap">> /\ Head(p) = "flush_log" /\ Tail(p) = <<"swap">>
              \/ p = <<"swap">> /\ Head(p) = "swap" /\ Tail(p) = <<>>
  <1>1. CASE p = <<"flush_thread">>
    BY <1>1, One
  <1>2. CASE p = <<"flush_thread", "release">>
    BY <1>2, Two
  <1>3. CASE p = <<"release">>
    BY <1>3, One
  <1>4. CASE p = <<"flush_log", "swap">>
    BY <1>4, Two
  <1>5. CASE p = <<"swap">>
    BY <1>5, One
  <1> QED BY <1>1, <1>2, <1>3, <1>4, <1>5 DEF Drops, Closing

LEMMA PoisonSteps ==
    ASSUME NEW p \in Poisoning
    PROVE  /\ p # <<>>
           /\ \/ Head(p) \in {"flush_log", "swap"} /\ Tail(p) \in Poisoning
              \/ Head(p) = "poison" /\ Tail(p) = <<"dead">>
  <1>1. CASE p = <<"flush_log", "swap", "poison", "dead">>
    BY <1>1, Four DEF Poisoning
  <1>2. CASE p = <<"swap", "poison", "dead">>
    BY <1>2, Three DEF Poisoning
  <1>3. CASE p = <<"poison", "dead">>
    BY <1>3, Two DEF Poisoning
  <1> QED BY <1>1, <1>2, <1>3 DEF Poisoning

LEMMA DyingSteps ==
    ASSUME NEW p \in Dying
    PROVE  /\ p # <<>>
           /\ Head(p) \in {"flush_log", "swap", "flush_thread", "release", "dead", "exit"}
           /\ Tail(p) \in Dying \cup {<<>>}
           /\ Head(p) = "release" => Tail(p) = <<"dead">>
  <1>1. CASE p = <<"flush_log", "swap", "dead">>
    BY <1>1, Three DEF Dying
  <1>2. CASE p = <<"swap", "dead">>
    BY <1>2, Two DEF Dying
  <1>3. CASE p = <<"dead">>
    BY <1>3, One DEF Dying
  <1>4. CASE p = <<"flush_log", "swap", "flush_thread", "dead">>
    BY <1>4, Four DEF Dying
  <1>5. CASE p = <<"swap", "flush_thread", "dead">>
    BY <1>5, Three DEF Dying
  <1>6. CASE p = <<"flush_thread", "dead">>
    BY <1>6, Two DEF Dying
  <1>7. CASE p = <<"flush_log", "swap", "flush_thread", "release", "dead">>
    BY <1>7, Five DEF Dying
  <1>8. CASE p = <<"swap", "flush_thread", "release", "dead">>
    BY <1>8, Four DEF Dying
  <1>9. CASE p = <<"flush_thread", "release", "dead">>
    BY <1>9, Three DEF Dying
  <1>10. CASE p = <<"release", "dead">>
    BY <1>10, Two DEF Dying
  <1>11. CASE p = <<"flush_log", "swap", "exit">>
    BY <1>11, Three DEF Dying
  <1>12. CASE p = <<"swap", "exit">>
    BY <1>12, Two DEF Dying
  <1>13. CASE p = <<"exit">>
    BY <1>13, One DEF Dying
  <1> QED BY <1>1, <1>2, <1>3, <1>4, <1>5, <1>6, <1>7, <1>8, <1>9, <1>10, <1>11, <1>12, <1>13 DEF Dying

LEMMA Apart ==
    /\ Poisoning \cap Dying = {}
    /\ Poisoning \cap Closing = {}
    /\ Dying \cap Closing = {}
  BY DEF Poisoning, Dying, Closing

(* Where the programs of a build that joins and of a call are, and are not. *)
LEMMA Places ==
    /\ \A p \in Joined \cup Logging \cup Pushing :
          p \in Programs /\ p # <<>> /\ p \notin Locked /\ p \notin Poisoning
    /\ Joined \cap Logging = {} /\ Joined \cap Pushing = {} /\ Logging \cap Pushing = {}
    /\ \A p \in Locked : /\ p \in Programs /\ p \notin Joined /\ p \notin Logging
                         /\ p \notin Pushing /\ p \notin Poisoning
  <1>1. \A p \in Joined \cup Logging \cup Pushing : p \notin Locked
    BY CallSteps, LockedSteps
  <1>2. \A p \in Joined \cup Logging \cup Pushing : p \notin Poisoning
    BY CallSteps, PoisonSteps
  <1>3. \A p \in Locked : p \notin Poisoning
    BY LockedSteps, PoisonSteps
  <1>4. Joined \cap Logging = {} /\ Joined \cap Pushing = {} /\ Logging \cap Pushing = {}
    BY DEF Joined, Logging, Pushing
  <1> QED BY <1>1, <1>2, <1>3, <1>4, CallSteps DEF Programs, Calm

(* What remains of the programs of a drop, a shutdown or a panic. *)
Ending == {<<>>} \cup Drops \cup Closing \cup Dying

LEMMA Disjoint ==
    ASSUME NEW p \in Ending \cup Poisoning
    PROVE  /\ p \in Programs
           /\ p \notin Locked /\ p \notin Joined /\ p \notin Logging /\ p \notin Pushing
           /\ p \in Ending => p \notin Poisoning
  <1>1. p \notin Locked
    BY LockedSteps, DropSteps, PoisonSteps, DyingSteps DEF Ending
  <1>2. p \notin Joined \cup Logging \cup Pushing
    BY CallSteps, DropSteps, PoisonSteps, DyingSteps DEF Ending
  <1>3. p \in Drops => p \notin Poisoning
    BY DEF Drops, Poisoning
  <1> QED BY <1>1, <1>2, <1>3, Apart, PoisonSteps DEF Ending, Programs, Calm

(* The first step tells where in its program a thread is. *)
LEMMA StepOf ==
    ASSUME NEW p \in Programs, p # <<>>
    PROVE  /\ Head(p) = "composite" => /\ p = <<"composite", "capture", "init", "thread">>
                                       /\ Tail(p) = <<"capture", "init", "thread">>
           /\ Head(p) = "capture" => /\ p = <<"capture", "init", "thread">>
                                     /\ Tail(p) = <<"init", "thread">>
           /\ Head(p) = "init" => p = <<"init", "thread">> /\ Tail(p) = <<"thread">>
           /\ Head(p) = "thread" => p = <<"thread">> /\ Tail(p) = <<>>
           /\ Head(p) = "load" => p = <<"load">> /\ Tail(p) = <<>>
           /\ Head(p) = "cas" => p = <<"cas">> /\ Tail(p) = <<>>
           /\ Head(p) = "on_log" => p = <<"on_log", "push">> /\ Tail(p) = <<"push">>
           /\ Head(p) = "push" => p = <<"push">> /\ Tail(p) = <<>>
           /\ Head(p) = "poison" => p \in Poisoning /\ Tail(p) = <<"dead">>
           /\ Head(p) = "release" => Tail(p) \in {<<>>, <<"dead">>}
           /\ Head(p) \in {"flush_log", "swap", "flush_thread", "exit"} =>
                 /\ Tail(p) \in Ending \cup Poisoning
                 /\ Tail(p) \in Poisoning => p \in Poisoning
  <1>1. CASE p \in Locked
    BY <1>1, LockedSteps
  <1>2. CASE p \in Joined \cup Logging \cup Pushing
    BY <1>2, CallSteps
  <1>3. CASE p \in Drops \cup Closing
    <2>1. Tail(p) \in {<<>>} \cup Drops \cup Closing
      BY <1>3, DropSteps DEF Drops, Closing
    <2>2. Tail(p) \in Ending /\ Tail(p) \notin Poisoning
      BY <2>1, Disjoint DEF Ending
    <2> QED BY <1>3, <2>1, <2>2, DropSteps
  <1>4. CASE p \in Poisoning
    BY <1>4, PoisonSteps
  <1>5. CASE p \in Dying
    <2>1. Tail(p) \in Ending
      BY <1>5, DyingSteps DEF Ending
    <2>2. Tail(p) \notin Poisoning
      BY <2>1, Disjoint
    <2> QED BY <1>5, <2>1, <2>2, DyingSteps
  <1> QED BY <1>1, <1>2, <1>3, <1>4, <1>5 DEF Programs, Calm

LEMMA Join21 ==
    ASSUME NEW a, NEW b, NEW c
    PROVE  <<a, b>> \o <<c>> = <<a, b, c>>
  <1> DEFINE S == {a, b, c}
  <1>1. <<a, b>> \in Seq(S) /\ <<c>> \in Seq(S) /\ <<a, b, c>> \in Seq(S)
    OBVIOUS
  <1>2. Len(<<a, b>>) = 2 /\ Len(<<c>>) = 1 /\ Len(<<a, b, c>>) = 3
    OBVIOUS
  <1>3. <<a, b>> \o <<c>> \in Seq(S) /\ Len(<<a, b>> \o <<c>>) = 3
    BY <1>1, <1>2, ConcatProperties
  <1>4. \A i \in 1 .. 3 : (<<a, b>> \o <<c>>)[i] = <<a, b, c>>[i]
    BY <1>1, <1>2
  <1> QED BY <1>1, <1>2, <1>3, <1>4, SeqEqual

LEMMA Join22 ==
    ASSUME NEW a, NEW b, NEW c, NEW d
    PROVE  <<a, b>> \o <<c, d>> = <<a, b, c, d>>
  <1> DEFINE S == {a, b, c, d}
  <1>1. <<a, b>> \in Seq(S) /\ <<c, d>> \in Seq(S) /\ <<a, b, c, d>> \in Seq(S)
    OBVIOUS
  <1>2. Len(<<a, b>>) = 2 /\ Len(<<c, d>>) = 2 /\ Len(<<a, b, c, d>>) = 4
    OBVIOUS
  <1>3. <<a, b>> \o <<c, d>> \in Seq(S) /\ Len(<<a, b>> \o <<c, d>>) = 4
    BY <1>1, <1>2, ConcatProperties
  <1>4. \A i \in 1 .. 4 : (<<a, b>> \o <<c, d>>)[i] = <<a, b, c, d>>[i]
    BY <1>1, <1>2
  <1> QED BY <1>1, <1>2, <1>3, <1>4, SeqEqual

LEMMA Join31 ==
    ASSUME NEW a, NEW b, NEW c, NEW d
    PROVE  <<a, b, c>> \o <<d>> = <<a, b, c, d>>
  <1> DEFINE S == {a, b, c, d}
  <1>1. <<a, b, c>> \in Seq(S) /\ <<d>> \in Seq(S) /\ <<a, b, c, d>> \in Seq(S)
    OBVIOUS
  <1>2. Len(<<a, b, c>>) = 3 /\ Len(<<d>>) = 1 /\ Len(<<a, b, c, d>>) = 4
    OBVIOUS
  <1>3. <<a, b, c>> \o <<d>> \in Seq(S) /\ Len(<<a, b, c>> \o <<d>>) = 4
    BY <1>1, <1>2, ConcatProperties
  <1>4. \A i \in 1 .. 4 : (<<a, b, c>> \o <<d>>)[i] = <<a, b, c, d>>[i]
    BY <1>1, <1>2
  <1> QED BY <1>1, <1>2, <1>3, <1>4, SeqEqual

LEMMA Join41 ==
    ASSUME NEW a, NEW b, NEW c, NEW d, NEW e
    PROVE  <<a, b, c, d>> \o <<e>> = <<a, b, c, d, e>>
  <1> DEFINE S == {a, b, c, d, e}
  <1>1. <<a, b, c, d>> \in Seq(S) /\ <<e>> \in Seq(S) /\ <<a, b, c, d, e>> \in Seq(S)
    OBVIOUS
  <1>2. Len(<<a, b, c, d>>) = 4 /\ Len(<<e>>) = 1 /\ Len(<<a, b, c, d, e>>) = 5
    OBVIOUS
  <1>3. <<a, b, c, d>> \o <<e>> \in Seq(S) /\ Len(<<a, b, c, d>> \o <<e>>) = 5
    BY <1>1, <1>2, ConcatProperties
  <1>4. \A i \in 1 .. 5 : (<<a, b, c, d>> \o <<e>>)[i] = <<a, b, c, d, e>>[i]
    BY <1>1, <1>2
  <1> QED BY <1>1, <1>2, <1>3, <1>4, SeqEqual

(* The programs the actions put together. *)
LEMMA BuiltPrograms ==
    /\ \A g \in {"thread", "full"} : DropOrder(g) \in Drops
    /\ \A g \in {"none", "thread", "full"} :
          (ShutdownTelemetry \o DropOrder(g)) \o <<"dead">> \in Dying
    /\ ShutdownTelemetry \o <<"exit">> \in Dying
    /\ ShutdownTelemetry \o <<"poison", "dead">> \in Poisoning
    /\ ShutdownTelemetry \o <<>> = <<"flush_log", "swap">>
    /\ ShutdownTelemetry \o <<"dead">> \in Dying
  <1>1. \A g \in {"thread", "full"} : DropOrder(g) \in Drops
    BY DEF DropOrder, Drops
  <1>2. (ShutdownTelemetry \o DropOrder("none")) \o <<"dead">> \in Dying
    <2>1. <<"flush_log", "swap">> \o <<>> = <<"flush_log", "swap">>
      OBVIOUS
    <2>2. <<"flush_log", "swap">> \o <<"dead">> = <<"flush_log", "swap", "dead">>
      BY Join21
    <2> QED BY <2>1, <2>2 DEF ShutdownTelemetry, DropOrder, Dying
  <1>3. (ShutdownTelemetry \o DropOrder("thread")) \o <<"dead">> \in Dying
    <2>1. <<"flush_log", "swap">> \o <<"flush_thread">>
            = <<"flush_log", "swap", "flush_thread">>
      BY Join21
    <2>2. <<"flush_log", "swap", "flush_thread">> \o <<"dead">>
            = <<"flush_log", "swap", "flush_thread", "dead">>
      BY Join31
    <2> QED BY <2>1, <2>2 DEF ShutdownTelemetry, DropOrder, Dying
  <1>4. (ShutdownTelemetry \o DropOrder("full")) \o <<"dead">> \in Dying
    <2>1. <<"flush_log", "swap">> \o <<"flush_thread", "release">>
            = <<"flush_log", "swap", "flush_thread", "release">>
      BY Join22
    <2>2. <<"flush_log", "swap", "flush_thread", "release">> \o <<"dead">>
            = <<"flush_log", "swap", "flush_thread", "release", "dead">>
      BY Join41
    <2> QED BY <2>1, <2>2 DEF ShutdownTelemetry, DropOrder, Dying
  <1>5. ShutdownTelemetry \o <<"exit">> \in Dying
    <2>1. <<"flush_log", "swap">> \o <<"exit">> = <<"flush_log", "swap", "exit">>
      BY Join21
    <2> QED BY <2>1 DEF ShutdownTelemetry, Dying
  <1>6. ShutdownTelemetry \o <<"poison", "dead">> \in Poisoning
    <2>1. <<"flush_log", "swap">> \o <<"poison", "dead">>
            = <<"flush_log", "swap", "poison", "dead">>
      BY Join22
    <2> QED BY <2>1 DEF ShutdownTelemetry, Poisoning
  <1>7. ShutdownTelemetry \o <<>> = <<"flush_log", "swap">>
    BY DEF ShutdownTelemetry
  <1>8. ShutdownTelemetry \o <<"dead">> \in Dying
    <2>1. <<"flush_log", "swap">> \o <<"dead">> = <<"flush_log", "swap", "dead">>
      BY Join21
    <2> QED BY <2>1 DEF ShutdownTelemetry, Dying
  <1> QED BY <1>1, <1>2, <1>3, <1>4, <1>5, <1>6, <1>7, <1>8

-----------------------------------------------------------------------------
(* Types, the mutex, the calls under way and the cached filters. *)

LEMMA Constants ==
    /\ None \notin Threads /\ None \notin Builds /\ None \notin Sites /\ None \notin Foreign
    /\ Unread \in Cached /\ Unread.generation = 0
    /\ {} \in SUBSET SinkNames
    /\ <<>> \in Programs /\ <<>> \notin Locked /\ <<>> \notin Poisoning
    /\ <<>> \notin Logging /\ <<>> \notin Pushing /\ <<>> \notin Joined /\ <<>> \in Ending
  <1>1. Unread \in Cached /\ Unread.generation = 0
    BY DEF Unread, Cached, OptLevelFilter
  <1>2. <<>> \in Ending
    BY DEF Ending
  <1> QED BY <1>1, <1>2, Disjoint, GuardAssumption

LEMMA InitCallsInv == Init => CallsInv
  <1> SUFFICES ASSUME Init PROVE CallsInv
    OBVIOUS
  <1> USE Constants
  <1>1. GuardTypeOK
    BY DEF Init, GuardTypeOK
  <1>2. LockInv
    BY DEF Init, LockInv
  <1>3. \A t \in Threads : pc[t] \notin Logging /\ pc[t] \notin Pushing /\ pc[t] # <<"on_log", "push">>
    BY DEF Init, Logging
  <1>4. CallInv
    BY <1>3 DEF CallInv
  <1>5. CacheInv
    BY DEF Init, CacheInv, GENERATION
  <1> QED BY <1>1, <1>2, <1>4, <1>5 DEF CallsInv

(* The filters of a call site are levels. *)
LEMMA FromStrFilter == \A name : FromStr(name) \in LevelFilter
  <1> TAKE name
  <1>1. DOMAIN LEVEL_NAMES = 1 .. 7
    BY DEF LEVEL_NAMES
  <1>2. CASE \E i \in DOMAIN LEVEL_NAMES : LEVEL_NAMES[i] = name
    <2>1. PICK i \in DOMAIN LEVEL_NAMES :
            i = CHOOSE j \in DOMAIN LEVEL_NAMES : LEVEL_NAMES[j] = name
      BY <1>2
    <2>2. FromStr(name) = i - 1 /\ i \in 1 .. 7
      BY <1>1, <1>2, <2>1 DEF FromStr
    <2> QED BY <2>2 DEF LevelFilter
  <1>3. CASE ~ \E i \in DOMAIN LEVEL_NAMES : LEVEL_NAMES[i] = name
    BY <1>3 DEF FromStr, Off, LevelFilter
  <1> QED BY <1>2, <1>3

LEMMA MatchFilter == \A x : MatchOf(x) \in OptLevelFilter
  <1> TAKE x
  <1> DEFINE filters == TargetFilters(installed)
             First(f) == /\ StartsWith(x.target, f.name)
                         /\ \A g \in filters : StartsWith(x.target, g.name)
                              => SortKey(f.name) <= SortKey(g.name)
  <1>1. \A f \in filters : f.level \in LevelFilter
    BY FromStrFilter DEF TargetFilters
  <1>2. MatchOf(x) = IF \E f \in filters : First(f)
                     THEN (CHOOSE f \in filters : First(f)).level ELSE NotSet
    BY DEF MatchOf, FindMaxMatch
  <1> HIDE DEF filters, First
  <1>3. CASE \E f \in filters : First(f)
    <2>1. (CHOOSE f \in filters : First(f)) \in filters
      BY <1>3
    <2> QED BY <1>1, <1>2, <1>3, <2>1 DEF OptLevelFilter
  <1>4. CASE ~ \E f \in filters : First(f)
    BY <1>2, <1>4 DEF OptLevelFilter
  <1> QED BY <1>3, <1>4

LEMMA TakersType == \A b \in Builds : \A f, l : Takers(b, f, l) \in SUBSET SinkNames
  BY DEF Takers, SinkNames

(* The steps that are not about an event. *)
LEMMA CallsFrame ==
    ASSUME CallsInv, NEW t \in Threads,
           UNCHANGED <<installed, weak_lock, level_filter, arg, seen, took>>,
           NEW p \in Programs, pc' = [pc EXCEPT ![t] = p],
           \/ p = pc[t]
           \/ p \notin Logging /\ p \notin Pushing,
           p \in Locked => pc[t] \in Locked,
           p \in Poisoning => pc[t] \in Locked \cup Poisoning,
           holders' \subseteq holders,
           sink' \in {"none", "real", "null"}, (sink' = "none") <=> (sink = "none"),
           guards' \in [Threads -> {"none", "thread", "full"}]
    PROVE  CallsInv'
  <1> USE DEF CallsInv
  <1>1. pc'[t] = p /\ \A u \in Threads : u # t => pc'[u] = pc[u]
    BY DEF GuardTypeOK
  <1>2. GuardTypeOK'
    BY DEF GuardTypeOK
  <1>3. LockInv'
    BY <1>1 DEF LockInv
  <1>4. \A x : MatchOf(x)' = MatchOf(x)
    BY DEF MatchOf
  <1>5. CacheInv'
    BY <1>4 DEF CacheInv
  <1>6. CallInv'
    <2> SUFFICES ASSUME NEW u \in Threads
                 PROVE  /\ pc'[u] \in Logging => arg[u] \in Sites /\ sink' # "none"
                        /\ pc'[u] \in Pushing => arg[u] \in Sites \cup Foreign /\ sink' # "none"
                        /\ pc'[u] = <<"on_log", "push">> => level_filter[arg[u]].generation = GENERATION
                        /\ pc'[u] \in Pushing /\ took[u] # None =>
                             took[u] = Takers(installed, MatchOf(arg[u]), arg[u].level)
      BY <1>4 DEF CallInv
    <2>1. CASE pc'[u] = pc[u]
      BY <2>1 DEF CallInv
    <2>2. CASE pc'[u] # pc[u]
      <3>1. pc'[u] \notin Logging /\ pc'[u] \notin Pushing
        BY <1>1, <2>2
      <3>2. pc'[u] # <<"on_log", "push">>
        BY <3>1 DEF Logging
      <3> QED BY <3>1, <3>2
    <2> QED BY <2>1, <2>2
  <1> QED BY <1>2, <1>3, <1>5, <1>6

(* The steps of a call that logs an event. *)
LEMMA LogFrame ==
    ASSUME CallsInv, NEW t \in Threads,
           UNCHANGED <<sink, installed, weak_lock, holders, guards>>,
           NEW p \in {<<>>} \cup Logging \cup Pushing, pc' = [pc EXCEPT ![t] = p],
           NEW a \in Sites \cup Foreign \cup {None}, arg' = [arg EXCEPT ![t] = a],
           NEW w, took' = [took EXCEPT ![t] = w], w \in (SUBSET SinkNames) \cup {None},
           seen' \in [Threads -> Cached],
           level_filter' \in [Sites -> Cached],
           \A x \in Sites : level_filter'[x] # level_filter[x] =>
              level_filter'[x] = [generation |-> GENERATION, filter |-> MatchOf(x)],
           p # <<>> => sink # "none" /\ a # None,
           p \in Logging => a \in Sites,
           p = <<"on_log", "push">> => level_filter'[a].generation = GENERATION,
           sink = "none" => level_filter' = level_filter,
           p \in Pushing /\ w # None => w = Takers(installed, MatchOf(a), a.level)
    PROVE  CallsInv'
  <1> USE DEF CallsInv
  <1>0. p \in Programs /\ p \notin Locked /\ p \notin Poisoning
    <2>1. CASE p = <<>>
      BY <2>1, Constants
    <2>2. CASE p \in Logging \cup Pushing
      BY <2>2, CallSteps, LockedSteps, PoisonSteps DEF Programs, Calm
    <2> QED BY <2>1, <2>2
  <1>1. /\ pc'[t] = p /\ arg'[t] = a /\ took'[t] = w
        /\ \A u \in Threads : u # t => pc'[u] = pc[u] /\ arg'[u] = arg[u] /\ took'[u] = took[u]
    BY DEF GuardTypeOK
  <1>2. GuardTypeOK'
    BY <1>0 DEF GuardTypeOK
  <1>3. LockInv'
    BY <1>0, <1>1 DEF LockInv
  <1>4. \A x : MatchOf(x)' = MatchOf(x)
    BY DEF MatchOf
  <1>5. CacheInv'
    <2> SUFFICES ASSUME NEW x \in Sites, level_filter'[x].generation = GENERATION
                 PROVE  sink # "none" /\ level_filter'[x].filter = MatchOf(x)
      BY <1>4 DEF CacheInv
    <2>1. CASE level_filter'[x] = level_filter[x]
      BY <2>1 DEF CacheInv
    <2>2. CASE level_filter'[x] # level_filter[x]
      BY <2>2
    <2> QED BY <2>1, <2>2
  <1>6. \A x \in Sites : level_filter[x].generation = GENERATION =>
           level_filter'[x].generation = GENERATION
    OBVIOUS
  <1>7. CallInv'
    <2> SUFFICES ASSUME NEW u \in Threads
                 PROVE  /\ pc'[u] \in Logging => arg'[u] \in Sites /\ sink # "none"
                        /\ pc'[u] \in Pushing => arg'[u] \in Sites \cup Foreign /\ sink # "none"
                        /\ pc'[u] = <<"on_log", "push">> => level_filter'[arg'[u]].generation = GENERATION
                        /\ pc'[u] \in Pushing /\ took'[u] # None =>
                             took'[u] = Takers(installed, MatchOf(arg'[u]), arg'[u].level)
      BY <1>4 DEF CallInv
    <2>1. CASE u = t
      BY <1>1, <2>1, CallSteps
    <2>2. CASE u # t
      <3>1. pc[u] = <<"on_log", "push">> => arg[u] \in Sites
        BY DEF CallInv, Logging
      <3> QED BY <1>1, <1>6, <2>2, <3>1 DEF CallInv
    <2> QED BY <2>1, <2>2
  <1> QED BY <1>2, <1>3, <1>5, <1>7

LEMMA CallsInvNext ==
    ASSUME CallsInv, [Next]_vars
    PROVE  CallsInv'
  <1> USE Constants
  <1>0. GuardTypeOK /\ LockInv /\ CallInv /\ CacheInv
    BY DEF CallsInv
  <1>a. ASSUME NEW t \in Threads
        PROVE  /\ pc[t] \in Programs /\ pc = [pc EXCEPT ![t] = pc[t]]
               /\ arg = [arg EXCEPT ![t] = arg[t]] /\ took = [took EXCEPT ![t] = took[t]]
               /\ took[t] \in (SUBSET SinkNames) \cup {None}
    BY <1>0 DEF GuardTypeOK
  <1>b. \A p \in Ending \cup Poisoning : p \in Programs /\ p \notin Locked /\ p \notin Logging /\ p \notin Pushing
    BY Disjoint
  <1>c. \A p \in Ending : p \notin Poisoning
    BY Disjoint
  <1>d. ASSUME NEW t \in Threads, NEW step, At(t, step)
        PROVE  pc[t] # <<>> /\ Head(pc[t]) = step /\ pc[t] \in Programs
    BY <1>0, <1>d DEF At, GuardTypeOK
  <1>1. ASSUME NEW t \in Threads, FlushLog(t) PROVE CallsInv'
    <2>1. Tail(pc[t]) \in Ending \cup Poisoning /\ (Tail(pc[t]) \in Poisoning => pc[t] \in Poisoning)
      BY <1>1, <1>d, StepOf DEF FlushLog
    <2> QED BY <1>0, <1>1, <1>b, <2>1, CallsFrame
         DEF FlushLog, Step, Goto, GuardTypeOK, process, threads
  <1>2. ASSUME NEW t \in Threads, Swap(t) PROVE CallsInv'
    <2>1. Tail(pc[t]) \in Ending \cup Poisoning /\ (Tail(pc[t]) \in Poisoning => pc[t] \in Poisoning)
      BY <1>2, <1>d, StepOf DEF Swap
    <2> QED BY <1>0, <1>2, <1>b, <2>1, CallsFrame
         DEF Swap, Step, Goto, GuardTypeOK, threads
  <1>3. ASSUME NEW t \in Threads, Panic(t) PROVE CallsInv'
    <2>1. PanicSteps(t) \in Dying
      BY <1>0, BuiltPrograms DEF PanicSteps, GuardTypeOK
    <2>2. PanicSteps(t) \in Ending
      BY <2>1 DEF Ending
    <2> QED BY <1>0, <1>3, <1>b, <1>c, <2>2, CallsFrame
         DEF Panic, Goto, GuardTypeOK, process, threads
  <1>4. ASSUME NEW t \in Threads, CtrlC(t) PROVE CallsInv'
    <2>1. ShutdownTelemetry \o <<"exit">> \in Ending
      BY BuiltPrograms DEF Ending
    <2> QED BY <1>0, <1>4, <1>b, <1>c, <2>1, CallsFrame
         DEF CtrlC, Goto, GuardTypeOK, process, threads
  <1>5. ASSUME NEW t \in Threads, Exit(t) PROVE CallsInv'
    <2>1. Tail(pc[t]) \in Ending \cup Poisoning /\ (Tail(pc[t]) \in Poisoning => pc[t] \in Poisoning)
      BY <1>5, <1>d, StepOf DEF Exit
    <2> QED BY <1>0, <1>5, <1>b, <2>1, CallsFrame
         DEF Exit, Step, Goto, GuardTypeOK, process, threads
  <1>6. ASSUME NEW t \in Threads, NEW b \in Builds, BuildLock(t, b) PROVE CallsInv'
    <2>1. CASE poisoned
      <3>1. PanicSteps(t) \in Ending
        BY <1>0, BuiltPrograms DEF PanicSteps, GuardTypeOK, Ending
      <3> QED BY <1>0, <1>6, <1>b, <1>c, <2>1, <3>1, CallsFrame
           DEF BuildLock, Goto, GuardTypeOK, threads
    <2>2. CASE ~poisoned /\ holders # {}
      <3>1. /\ holders' = holders \cup {t} /\ pc' = [pc EXCEPT ![t] = <<"thread">>]
            /\ weak_lock = None
            /\ UNCHANGED <<sink, installed, weak_lock, level_filter, arg, seen, took, guards>>
        BY <1>6, <2>2 DEF BuildLock, Goto, threads
      <3>2. <<"thread">> \in Joined /\ <<"thread">> \in Programs
        BY DEF Joined, Programs, Calm
      <3>3. /\ <<"thread">> \notin Locked /\ <<"thread">> \notin Logging
            /\ <<"thread">> \notin Pushing /\ <<"thread">> \notin Poisoning
        BY <3>2, Places
      <3>4. pc'[t] = <<"thread">> /\ \A u \in Threads : u # t => pc'[u] = pc[u]
        BY <1>0, <3>1 DEF GuardTypeOK
      <3>5. GuardTypeOK'
        BY <1>0, <3>1, <3>2 DEF GuardTypeOK
      <3>6. LockInv'
        BY <1>0, <2>2, <3>1, <3>3, <3>4 DEF LockInv
      <3>7. \A x : MatchOf(x)' = MatchOf(x)
        BY <3>1 DEF MatchOf
      <3>8. <<"thread">> # <<"on_log", "push">>
        OBVIOUS
      <3>9. CallInv'
        BY <1>0, <3>1, <3>3, <3>4, <3>7, <3>8 DEF CallInv
      <3> QED BY <1>0, <3>1, <3>5, <3>6, <3>7, <3>9 DEF CallsInv, CacheInv
    <2>3. CASE ~poisoned /\ holders = {}
      <3> DEFINE p == <<"composite", "capture", "init", "thread">>
      <3>1. /\ weak_lock' = t /\ arg' = [arg EXCEPT ![t] = b] /\ pc' = [pc EXCEPT ![t] = p]
            /\ weak_lock = None
            /\ UNCHANGED <<sink, holders, installed, level_filter, seen, took, guards>>
        BY <1>6, <2>3 DEF BuildLock, Goto, Set, threads
      <3>2. p \in Locked /\ p \in Programs
        BY DEF Locked, Programs, Calm
      <3>3. p \notin Logging /\ p \notin Pushing /\ p \notin Poisoning
        BY <3>2, LockedSteps, CallSteps, PoisonSteps
      <3>4. /\ pc'[t] = p /\ arg'[t] = b
            /\ \A u \in Threads : u # t => pc'[u] = pc[u] /\ arg'[u] = arg[u]
        BY <1>0, <3>1 DEF GuardTypeOK
      <3>5. GuardTypeOK'
        BY <1>0, <3>1, <3>2 DEF GuardTypeOK
      (* The mutex was free, hence nobody else is past it. *)
      <3>6. \A u \in Threads : pc[u] \notin Locked /\ pc[u] \notin Poisoning
        BY <1>0, <3>1 DEF LockInv
      <3>7. LockInv'
        BY <1>0, <2>3, <3>1, <3>3, <3>4, <3>6 DEF LockInv
      <3>8. \A x : MatchOf(x)' = MatchOf(x)
        BY <3>1 DEF MatchOf
      <3>9. p # <<"on_log", "push">>
        BY <3>3 DEF Logging
      <3>10. CallInv'
        BY <1>0, <3>1, <3>3, <3>4, <3>8, <3>9 DEF CallInv
      <3> QED BY <1>0, <3>1, <3>5, <3>7, <3>8, <3>10 DEF CallsInv, CacheInv
    <2> QED BY <2>1, <2>2, <2>3
  <1>7. \A p \in Locked : p \in Programs /\ p \notin Logging /\ p \notin Pushing /\ p \notin Poisoning
    BY Places
  <1>8. ASSUME NEW t \in Threads, BuildComposite(t) PROVE CallsInv'
    <2>1. pc[t] \in Locked /\ Tail(pc[t]) \in Locked
      BY <1>8, <1>d, StepOf DEF BuildComposite, Locked
    <2> QED BY <1>0, <1>7, <1>8, <2>1, CallsFrame
         DEF BuildComposite, Step, Goto, GuardTypeOK, threads
  <1>9. ASSUME NEW t \in Threads, BuildCapture(t) PROVE CallsInv'
    <2>1. pc[t] \in Locked /\ Tail(pc[t]) \in Locked
      BY <1>9, <1>d, StepOf DEF BuildCapture, Locked
    <2>2. ShutdownTelemetry \o <<"poison", "dead">> \in Poisoning
      BY BuiltPrograms
    <2>3. PICK p \in {Tail(pc[t]), ShutdownTelemetry \o <<"poison", "dead">>} :
             pc' = [pc EXCEPT ![t] = p]
      BY <1>9 DEF BuildCapture, Step, Goto
    <2>4. /\ p \in Programs /\ p \notin Logging /\ p \notin Pushing
      BY <1>7, <1>b, <2>1, <2>2, <2>3
    <2> QED BY <1>0, <1>9, <2>1, <2>3, <2>4, CallsFrame
         DEF BuildCapture, GuardTypeOK, process, threads
  <1>10. ASSUME NEW t \in Threads, Poison(t) PROVE CallsInv'
    <2>1. /\ weak_lock' = None /\ pc' = [pc EXCEPT ![t] = Tail(pc[t])]
          /\ UNCHANGED <<sink, installed, holders, level_filter, arg, seen, took, guards>>
      BY <1>10 DEF Poison, Step, Goto, threads
    <2>2. pc[t] \in Poisoning /\ Tail(pc[t]) \in Ending
      BY <1>10, <1>d, StepOf DEF Poison, Ending, Dying
    <2>3. pc'[t] \in Ending /\ \A u \in Threads : u # t => pc'[u] = pc[u]
      BY <1>0, <2>1, <2>2 DEF GuardTypeOK
    <2>4. weak_lock = t
      BY <1>0, <2>2 DEF LockInv
    <2>5. \A u \in Threads : pc'[u] \notin Locked /\ pc'[u] \notin Poisoning
      BY <1>0, <1>b, <1>c, <2>3, <2>4 DEF LockInv
    <2>6. GuardTypeOK'
      BY <1>0, <1>b, <2>1, <2>2 DEF GuardTypeOK
    <2>7. LockInv'
      BY <1>0, <2>1, <2>5 DEF LockInv
    <2>8. \A x : MatchOf(x)' = MatchOf(x)
      BY <2>1 DEF MatchOf
    <2>9. \A p \in Ending : p # <<"on_log", "push">>
      BY <1>b DEF Logging
    <2>10. CallInv'
      BY <1>0, <1>b, <2>1, <2>3, <2>8, <2>9 DEF CallInv
    <2> QED BY <1>0, <2>1, <2>6, <2>7, <2>8, <2>10 DEF CallsInv, CacheInv
  <1>11. ASSUME NEW t \in Threads, BuildInit(t) PROVE CallsInv'
    <2>1. pc[t] = <<"init", "thread">> /\ Tail(pc[t]) = <<"thread">>
      BY <1>11, <1>d, StepOf DEF BuildInit
    <2>2. pc[t] \in Locked /\ weak_lock = t /\ arg[t] \in Builds /\ holders = {}
      BY <1>0, <2>1 DEF LockInv, Locked
    <2>3. /\ weak_lock' = None /\ arg' = [arg EXCEPT ![t] = None]
          /\ UNCHANGED <<level_filter, seen, took, guards>>
      BY <1>11 DEF BuildInit, Set, threads
    <2>4. \/ /\ sink = "none" /\ sink' = "real" /\ installed' = arg[t] /\ holders' = {t}
             /\ pc' = [pc EXCEPT ![t] = <<"thread">>]
          \/ /\ sink # "none" /\ UNCHANGED <<sink, installed, holders>>
             /\ pc' = [pc EXCEPT ![t] = <<>>]
      BY <1>11, <2>1 DEF BuildInit, Uninitialized, Step, Goto
    <2>5. /\ <<"thread">> \in Programs
          /\ <<"thread">> \notin Locked /\ <<"thread">> \notin Logging
          /\ <<"thread">> \notin Pushing /\ <<"thread">> \notin Poisoning
      BY Places DEF Joined
    <2>6. /\ pc'[t] \in {<<>>, <<"thread">>}
          /\ \A u \in Threads : u # t => pc'[u] = pc[u] /\ arg'[u] = arg[u]
      BY <1>0, <2>3, <2>4 DEF GuardTypeOK
    <2>7. GuardTypeOK'
      BY <1>0, <2>2, <2>3, <2>4, <2>5 DEF GuardTypeOK
    <2>8. \A u \in Threads : pc'[u] \notin Locked /\ pc'[u] \notin Poisoning
      BY <1>0, <2>2, <2>5, <2>6 DEF LockInv
    <2>9. LockInv'
      BY <1>0, <2>2, <2>3, <2>4, <2>8 DEF LockInv
    <2>10. pc'[t] # <<"on_log", "push">> /\ pc'[t] \notin Logging /\ pc'[t] \notin Pushing
      BY <2>5, <2>6 DEF Logging
    <2>11. CASE sink = "none"
      <3>1. \A u \in Threads : pc[u] \notin Logging /\ pc[u] \notin Pushing
        BY <1>0, <2>11 DEF CallInv
      <3>2. \A u \in Threads : /\ pc'[u] \notin Logging /\ pc'[u] \notin Pushing
                               /\ pc'[u] # <<"on_log", "push">>
        BY <2>6, <2>10, <3>1 DEF Logging
      <3>3. CallInv'
        BY <3>2 DEF CallInv
      <3>4. CacheInv'
        BY <1>0, <2>3, <2>11 DEF CacheInv
      <3> QED BY <2>7, <2>9, <3>3, <3>4 DEF CallsInv
    <2>12. CASE sink # "none"
      <3>1. UNCHANGED <<sink, installed>>
        BY <2>4, <2>12
      <3>2. \A x : MatchOf(x)' = MatchOf(x)
        BY <3>1 DEF MatchOf
      <3>3. CallInv'
        BY <1>0, <2>3, <2>6, <2>10, <3>1, <3>2 DEF CallInv
      <3>4. CacheInv'
        BY <1>0, <2>3, <3>1, <3>2 DEF CacheInv
      <3> QED BY <2>7, <2>9, <3>3, <3>4 DEF CallsInv
    <2> QED BY <2>11, <2>12
  <1>12. ASSUME NEW t \in Threads, BuildThread(t) PROVE CallsInv'
    <2>1. Tail(pc[t]) = <<>>
      BY <1>12, <1>d, StepOf DEF BuildThread
    <2> QED BY <1>0, <1>12, <2>1, CallsFrame
         DEF BuildThread, Step, Goto, Set, GuardTypeOK, process
  <1>13. ASSUME NEW t \in Threads, ThreadGuard(t) PROVE CallsInv'
    BY <1>0, <1>13, <1>a, CallsFrame DEF ThreadGuard, Set, GuardTypeOK, process, calls
  <1>14. ASSUME NEW t \in Threads, DropGuard(t) PROVE CallsInv'
    <2>1. DropOrder(guards[t]) \in Ending
      BY <1>0, <1>14, BuiltPrograms DEF DropGuard, GuardTypeOK, Ending
    <2> QED BY <1>0, <1>14, <1>b, <1>c, <2>1, CallsFrame
         DEF DropGuard, Goto, GuardTypeOK, process, threads
  <1>15. ASSUME NEW t \in Threads, FlushThread(t) PROVE CallsInv'
    <2>1. Tail(pc[t]) \in Ending \cup Poisoning /\ (Tail(pc[t]) \in Poisoning => pc[t] \in Poisoning)
      BY <1>15, <1>d, StepOf DEF FlushThread
    <2> QED BY <1>0, <1>15, <1>b, <2>1, CallsFrame
         DEF FlushThread, Step, Goto, Set, GuardTypeOK, process
  <1>16. ASSUME NEW t \in Threads, Release(t) PROVE CallsInv'
    <2>1. Tail(pc[t]) \in {<<>>, <<"dead">>}
      BY <1>16, <1>d, StepOf DEF Release
    <2>2. PICK p \in {Tail(pc[t]), ShutdownTelemetry \o Tail(pc[t])} :
             pc' = [pc EXCEPT ![t] = p]
      BY <1>16 DEF Release, Goto
    <2>3. <<"flush_log", "swap">> \in Ending /\ <<"dead">> \in Ending
      BY DEF Ending, Closing, Dying
    <2>4. p \in Ending
      BY <2>1, <2>2, <2>3, BuiltPrograms DEF Ending
    <2> QED BY <1>0, <1>16, <1>b, <1>c, <2>2, <2>4, CallsFrame
         DEF Release, Set, GuardTypeOK
  <1>17. ASSUME NEW t \in Threads, Span(t) PROVE CallsInv'
    BY <1>0, <1>17, <1>a, CallsFrame DEF Span, GuardTypeOK, process, calls, threads
  <1>18. ASSUME NEW t \in Threads, LogFlush(t) PROVE CallsInv'
    BY <1>0, <1>18, <1>a, CallsFrame DEF LogFlush, GuardTypeOK, process, calls, threads
  <1>e. /\ <<"load">> \in Logging /\ <<"cas">> \in Logging /\ <<"on_log", "push">> \in Logging
        /\ <<"push">> \in Pushing /\ <<"push">> \notin Logging
        /\ <<"load">> # <<"on_log", "push">> /\ <<"cas">> # <<"on_log", "push">>
        /\ <<"push">> # <<"on_log", "push">> /\ <<>> # <<"on_log", "push">>
        /\ \A p \in Logging : p \notin Pushing /\ p # <<>>
    <2>1. /\ <<"load">> \in Logging /\ <<"cas">> \in Logging /\ <<"on_log", "push">> \in Logging
          /\ <<"push">> \in Pushing
      BY DEF Logging, Pushing
    <2>2. /\ <<"load">> # <<"on_log", "push">> /\ <<"cas">> # <<"on_log", "push">>
          /\ <<"push">> # <<"on_log", "push">>
      OBVIOUS
    <2>3. <<>> # <<"on_log", "push">>
      BY Two
    <2> QED BY <2>1, <2>2, <2>3, Places
  <1>f. \A x \in Sites : Outdated(level_filter[x]) <=> level_filter[x].generation # GENERATION
    BY <1>0 DEF Outdated, GENERATION, GuardTypeOK, Cached
  (* Deciding on an event whose filter is cached. *)
  <1>g. ASSUME NEW t \in Threads, NEW x \in Sites, NEW filter, Decide(t, x, filter),
               sink # "none", level_filter' \in [Sites -> Cached],
               level_filter'[x].generation = GENERATION,
               \A y \in Sites : level_filter'[y] # level_filter[y] =>
                  level_filter'[y] = [generation |-> GENERATION, filter |-> MatchOf(y)],
               UNCHANGED <<sink, installed, weak_lock, holders, guards, took>>
        PROVE  CallsInv'
    <2>1. seen' \in [Threads -> Cached]
      BY <1>0, <1>g DEF Decide, Set, GuardTypeOK
    <2>2. took' = [took EXCEPT ![t] = took[t]] /\ took[t] \in (SUBSET SinkNames) \cup {None}
      BY <1>a, <1>g
    <2>3. CASE pc' = [pc EXCEPT ![t] = <<"on_log", "push">>] /\ arg' = [arg EXCEPT ![t] = x]
      <3> DEFINE p == <<"on_log", "push">>
      <3>1. p \in Logging /\ p \notin Pushing /\ x # None
        BY <1>e
      <3>2. pc' = [pc EXCEPT ![t] = p]
        BY <2>3
      <3> HIDE DEF p
      <3> QED BY <1>g, <2>1, <2>2, <2>3, <3>1, <3>2, LogFrame
    <2>4. CASE pc' = [pc EXCEPT ![t] = <<>>] /\ arg' = [arg EXCEPT ![t] = None]
      BY <1>e, <1>g, <2>1, <2>2, <2>4, LogFrame
    <2> QED BY <1>g, <2>3, <2>4 DEF Decide, Goto, Set
  <1>19. ASSUME NEW t \in Threads, NEW x \in Sites, Log(t, x) PROVE CallsInv'
    <2>1. /\ sink # "none"
          /\ UNCHANGED <<sink, installed, weak_lock, holders, guards, level_filter, took>>
      BY <1>19 DEF Log, process, threads
    <2>2. CASE Outdated(level_filter[x])
      <3>1. /\ pc' = [pc EXCEPT ![t] = <<"load">>] /\ arg' = [arg EXCEPT ![t] = x]
            /\ seen' = seen
        BY <1>19, <2>2 DEF Log, Goto, Set
      <3> QED BY <1>0, <1>a, <1>e, <2>1, <3>1, LogFrame DEF GuardTypeOK
    <2>3. CASE ~Outdated(level_filter[x])
      BY <1>0, <1>19, <1>f, <1>g, <2>1, <2>3 DEF Log, GuardTypeOK
    <2> QED BY <2>2, <2>3
  <1>20. ASSUME NEW t \in Threads, Load(t) PROVE CallsInv'
    <2>1. pc[t] = <<"load">>
      BY <1>20, <1>d, StepOf DEF Load
    <2>2. arg[t] \in Sites /\ sink # "none"
      BY <1>0, <1>e, <2>1 DEF CallInv
    <2>3. UNCHANGED <<sink, installed, weak_lock, holders, guards, level_filter, took>>
      BY <1>20 DEF Load, process, threads
    <2>4. CASE Outdated(level_filter[arg[t]])
      <3>1. /\ pc' = [pc EXCEPT ![t] = <<"cas">>] /\ arg' = arg
            /\ seen' = [seen EXCEPT ![t] = level_filter[arg[t]]]
        BY <1>20, <2>4 DEF Load, Goto, Set
      <3>2. seen' \in [Threads -> Cached] /\ level_filter' \in [Sites -> Cached]
        BY <1>0, <2>2, <2>3, <3>1 DEF GuardTypeOK
      <3> QED BY <1>a, <1>e, <2>2, <2>3, <3>1, <3>2, LogFrame
    <2>5. CASE ~Outdated(level_filter[arg[t]])
      BY <1>0, <1>20, <1>f, <1>g, <2>2, <2>3, <2>5 DEF Load, GuardTypeOK
    <2> QED BY <2>4, <2>5
  <1>21. ASSUME NEW t \in Threads, Cas(t) PROVE CallsInv'
    <2>1. pc[t] = <<"cas">>
      BY <1>21, <1>d, StepOf DEF Cas
    <2>2. arg[t] \in Sites /\ sink # "none"
      BY <1>0, <1>e, <2>1 DEF CallInv
    <2>3. UNCHANGED <<sink, installed, weak_lock, holders, guards, took>>
      BY <1>21 DEF Cas, process, threads
    <2>4. Decide(t, arg[t], MatchOf(arg[t]))
      BY <1>21 DEF Cas
    <2>5. CASE level_filter' = [level_filter EXCEPT ![arg[t]] = NewCached(arg[t])]
      <3>1. NewCached(arg[t]) \in Cached
        BY MatchFilter DEF NewCached, Cached, GENERATION
      <3>2. level_filter' \in [Sites -> Cached]
        BY <1>0, <2>2, <2>5, <3>1 DEF GuardTypeOK
      <3>3. /\ level_filter'[arg[t]] = NewCached(arg[t])
            /\ \A y \in Sites : y # arg[t] => level_filter'[y] = level_filter[y]
        BY <1>0, <2>2, <2>5 DEF GuardTypeOK
      <3>4. /\ level_filter'[arg[t]].generation = GENERATION
            /\ \A y \in Sites : level_filter'[y] # level_filter[y] =>
                  level_filter'[y] = [generation |-> GENERATION, filter |-> MatchOf(y)]
        BY <3>3 DEF NewCached
      <3> QED BY <1>g, <2>2, <2>3, <2>4, <3>2, <3>4
    <2>6. CASE level_filter' = level_filter /\ ~Outdated(level_filter[arg[t]])
      BY <1>0, <1>f, <1>g, <2>2, <2>3, <2>4, <2>6 DEF GuardTypeOK
    <2> QED BY <1>21, <2>5, <2>6 DEF Cas, Set
  <1>22. ASSUME NEW t \in Threads, OnLog(t) PROVE CallsInv'
    <2> DEFINE x == arg[t]
               w == IF sink = "real" THEN Takers(installed, level_filter[x].filter, x.level)
                    ELSE None
    <2>1. pc[t] = <<"on_log", "push">> /\ Tail(pc[t]) = <<"push">>
      BY <1>22, <1>d, StepOf DEF OnLog
    <2>2. x \in Sites /\ sink # "none" /\ level_filter[x].generation = GENERATION
      BY <1>0, <1>e, <2>1 DEF CallInv
    <2>3. level_filter[x].filter = MatchOf(x) /\ installed \in Builds
      BY <1>0, <2>2 DEF CacheInv, LockInv
    <2>4. /\ UNCHANGED <<sink, installed, weak_lock, holders, guards, level_filter, arg, seen>>
          /\ pc' = [pc EXCEPT ![t] = <<"push">>] /\ took' = [took EXCEPT ![t] = w]
      BY <1>22, <2>1 DEF OnLog, Step, Goto, Set, process, threads
    <2>5. /\ w \in (SUBSET SinkNames) \cup {None}
          /\ w # None => w = Takers(installed, MatchOf(x), x.level)
      BY <2>3, TakersType
    <2>6. seen' \in [Threads -> Cached] /\ level_filter' \in [Sites -> Cached]
      BY <1>0, <2>4 DEF GuardTypeOK
    <2> HIDE DEF w
    <2> QED BY <1>a, <1>e, <2>2, <2>4, <2>5, <2>6, LogFrame
  <1>23. ASSUME NEW t \in Threads, Push(t) PROVE CallsInv'
    <2>1. Tail(pc[t]) = <<>>
      BY <1>23, <1>d, StepOf DEF Push
    <2>2. /\ UNCHANGED <<sink, installed, weak_lock, holders, guards, level_filter, seen>>
          /\ pc' = [pc EXCEPT ![t] = <<>>] /\ took' = [took EXCEPT ![t] = {}]
          /\ arg' = [arg EXCEPT ![t] = None]
      BY <1>23, <2>1 DEF Push, Step, Goto, Set, process, threads
    <2>3. seen' \in [Threads -> Cached] /\ level_filter' \in [Sites -> Cached]
      BY <1>0, <2>2 DEF GuardTypeOK
    <2> QED BY <1>e, <2>2, <2>3, LogFrame
  <1>24. ASSUME NEW t \in Threads, NEW x \in Foreign, LogInterop(t, x) PROVE CallsInv'
    <2> DEFINE w == IF sink = "real" THEN Takers(installed, MatchOf(x), x.level) ELSE None
    <2>1. /\ UNCHANGED <<sink, installed, weak_lock, holders, guards, level_filter, seen>>
          /\ pc' = [pc EXCEPT ![t] = <<"push">>] /\ took' = [took EXCEPT ![t] = w]
          /\ arg' = [arg EXCEPT ![t] = x] /\ sink # "none"
      BY <1>24 DEF LogInterop, Goto, Set, process, threads
    <2>2. /\ w \in (SUBSET SinkNames) \cup {None}
          /\ w # None => w = Takers(installed, MatchOf(x), x.level)
      BY <1>0, <2>1, TakersType DEF LockInv
    <2>3. seen' \in [Threads -> Cached] /\ level_filter' \in [Sites -> Cached]
      BY <1>0, <2>1 DEF GuardTypeOK
    <2> HIDE DEF w
    <2> QED BY <1>e, <2>1, <2>2, <2>3, LogFrame
  <1>25. ASSUME UNCHANGED vars PROVE CallsInv'
    <2>1. \A x : MatchOf(x)' = MatchOf(x)
      BY <1>25 DEF vars, process, MatchOf
    <2>2. GuardTypeOK' /\ LockInv'
      BY <1>0, <1>25 DEF vars, process, calls, threads, GuardTypeOK, LockInv
    <2>3. CallInv' /\ CacheInv'
      BY <1>0, <1>25, <2>1 DEF vars, process, calls, CallInv, CacheInv
    <2> QED BY <2>2, <2>3 DEF CallsInv
  <1> QED
    BY <1>1, <1>2, <1>3, <1>4, <1>5, <1>6, <1>8, <1>9, <1>10, <1>11, <1>12, <1>13, <1>14,
       <1>15, <1>16, <1>17, <1>18, <1>19, <1>20, <1>21, <1>22, <1>23, <1>24, <1>25
    DEF Next, Start, Continue

LEMMA CallsInductive == Spec => []CallsInv
  BY InitCallsInv, CallsInvNext, PTL DEF Spec

-----------------------------------------------------------------------------
(* Levels *)

LEMMA Least ==
    ASSUME NEW S \in SUBSET Nat, S # {}
    PROVE  \E m \in S : \A n \in S : m <= n
  <1>1. IsWellFoundedOn(OpToRel(<, Nat), Nat)
    BY NatLessThanWellFounded
  <1>2. PICK m \in S : \A n \in S : ~ (<<n, m>> \in OpToRel(<, Nat))
    BY <1>1, WFMin
  <1>3. ASSUME NEW n \in S PROVE m <= n
    <2>1. ~ (n < m)
      BY <1>2, <1>3 DEF OpToRel
    <2> QED BY <2>1
  <1> QED BY <1>3

LEMMA Greatest ==
    ASSUME NEW S \in SUBSET Nat, S # {}, NEW top \in Nat, \A n \in S : n <= top
    PROVE  \E m \in S : \A n \in S : n <= m
  <1> DEFINE Below == {top - n : n \in S}
  <1>0. \A n \in S : top - n \in Nat
    OBVIOUS
  <1>1. Below \in SUBSET Nat /\ Below # {}
    BY <1>0
  <1>2. PICK d \in Below : \A e \in Below : d <= e
    BY <1>1, Least
  <1>3. PICK m \in S : d = top - m
    BY <1>2
  <1>4. ASSUME NEW n \in S PROVE n <= m
    <2>1. top - m <= top - n
      BY <1>2, <1>3
    <2> QED BY <2>1
  <1> QED BY <1>4

(* The greatest of the filters is one of them, or Off. *)
LEMMA MaxFilterIsMax ==
    ASSUME NEW F \in SUBSET LevelFilter
    PROVE  MaxFilter(F) \in LevelFilter /\ \A f \in F : f <= MaxFilter(F)
  <1>1. F \cup {Off} \in SUBSET Nat /\ F \cup {Off} # {} /\ \A f \in F \cup {Off} : f <= 6
    BY DEF LevelFilter, Off
  <1>2. PICK m \in F \cup {Off} : \A f \in F \cup {Off} : f <= m
    BY <1>1, Greatest
  <1>3. /\ MaxFilter(F) \in F \cup {Off}
        /\ \A f \in F : f <= MaxFilter(F)
    <2> DEFINE IsMax(m1) == \A g \in F : g <= m1
    <2>1. \E f \in F \cup {Off} : IsMax(f)
      BY <1>2
    <2>2. MaxFilter(F) = CHOOSE f \in F \cup {Off} : IsMax(f)
      BY DEF MaxFilter
    <2> HIDE DEF IsMax
    <2>3. MaxFilter(F) \in F \cup {Off} /\ IsMax(MaxFilter(F))
      BY <2>1, <2>2
    <2> QED BY <2>3 DEF IsMax
  <1>4. F \cup {Off} \subseteq LevelFilter
    BY DEF LevelFilter, Off
  <1> QED BY <1>3, <1>4

(* The names that start a target. *)
NamesOf(b, target) ==
    {n \in DOMAIN b.targets \ {<<"MAX_LEVEL">>} : \E k \in 0 .. Len(target) : n = SubSeq(target, 1, k)}

LEMMA Prefixes ==
    ASSUME NEW b \in Builds, NEW target \in Seq(STRING)
    PROVE  /\ \A n \in DOMAIN b.targets \ {<<"MAX_LEVEL">>} :
                 StartsWith(target, n) <=> n \in NamesOf(b, target)
           /\ \A n \in NamesOf(b, target) :
                 Len(n) \in Nat /\ Len(n) <= Len(target) /\ Len(n) < UsizeRange
                 /\ n = SubSeq(target, 1, Len(n))
  <1>1. ASSUME NEW k \in 0 .. Len(target)
        PROVE  Len(SubSeq(target, 1, k)) = k
    <2>1. k \in Nat /\ Len(target) \in Nat
      BY LenProperties
    <2> QED BY <2>1, SubSeqProperties
  <1>2. ASSUME NEW n \in DOMAIN b.targets \ {<<"MAX_LEVEL">>}
        PROVE  Len(n) \in Nat /\ Len(n) < UsizeRange
    BY <1>2, GuardAssumption, LenProperties
  <1>3. ASSUME NEW n \in NamesOf(b, target)
        PROVE  Len(n) <= Len(target) /\ n = SubSeq(target, 1, Len(n))
    <2>1. PICK k \in 0 .. Len(target) : n = SubSeq(target, 1, k)
      BY DEF NamesOf
    <2>2. Len(n) = k
      BY <1>1, <2>1
    <2> QED BY <2>1, <2>2
  <1>4. ASSUME NEW n \in DOMAIN b.targets \ {<<"MAX_LEVEL">>}
        PROVE  StartsWith(target, n) <=> n \in NamesOf(b, target)
    <2>1. ASSUME StartsWith(target, n) PROVE n \in NamesOf(b, target)
      <3>1. Len(n) \in 0 .. Len(target) /\ n = SubSeq(target, 1, Len(n))
        BY <1>2, <2>1, LenProperties DEF StartsWith
      <3> QED BY <3>1 DEF NamesOf
    <2>2. ASSUME n \in NamesOf(b, target) PROVE StartsWith(target, n)
      BY <1>3, <2>2 DEF StartsWith
    <2> QED BY <2>1, <2>2
  <1>5. \A n \in NamesOf(b, target) : n \in DOMAIN b.targets \ {<<"MAX_LEVEL">>}
    BY DEF NamesOf
  <1> QED BY <1>2, <1>3, <1>4, <1>5

LEMMA SortKeys ==
    ASSUME NEW n, Len(n) \in Nat, Len(n) < UsizeRange
    PROVE  SortKey(n) = IF Len(n) = 0 THEN 0 ELSE UsizeRange - Len(n)
  <1> DEFINE l == Len(n)
  <1>1. l \in Nat /\ l < UsizeRange /\ UsizeRange \in Nat \ {0}
    BY UsizeAssumption
  <1> SUFFICES (UsizeRange - l) % UsizeRange = IF l = 0 THEN 0 ELSE UsizeRange - l
    BY DEF SortKey
  <1> HIDE DEF l
  <1> QED BY <1>1

(***************************************************************************)
(* What find_max_match finds on the list sorted by wrapped lengths is the  *)
(* filter of the empty name, else of the longest name; a sink's own level  *)
(* counts when it finds nothing.                                           *)
(***************************************************************************)
LEMMA MatchIsLevelFor ==
    ASSUME NEW b \in Builds, NEW target \in Seq(STRING), NEW s,
           NEW match, match = FindMaxMatch(target, TargetFilters(b))
    PROVE  LevelFor(b, s, target) = IF match # NotSet THEN match ELSE b.sinks[s]
  <1> DEFINE filters == TargetFilters(b)
             names == NamesOf(b, target)
             known == DOMAIN b.targets \ {<<"MAX_LEVEL">>}
             First(f) == /\ StartsWith(target, f.name)
                         /\ \A g \in filters : StartsWith(target, g.name)
                              => SortKey(f.name) <= SortKey(g.name)
             Longest(n) == \A m \in names : Len(m) <= Len(n)
  <1>1. match = IF \E f \in filters : First(f)
                THEN (CHOOSE f \in filters : First(f)).level ELSE NotSet
    BY DEF FindMaxMatch
  <1>2. LevelFor(b, s, target) =
           IF <<>> \in names THEN FromStr(b.targets[<<>>])
           ELSE IF names = {} THEN b.sinks[s]
           ELSE FromStr(b.targets[CHOOSE n \in names : Longest(n)])
    BY DEF LevelFor, NamesOf
  <1>3. /\ \A f \in filters : f.name \in known /\ f.level = FromStr(b.targets[f.name])
        /\ \A n \in known : \E f \in filters : f.name = n
    <2> DEFINE Filter(n) == [name |-> n, level |-> FromStr(b.targets[n])]
    <2>1. filters = {Filter(n) : n \in known}
      BY DEF TargetFilters
    <2>2. \A n : Filter(n).name = n /\ Filter(n).level = FromStr(b.targets[n])
      OBVIOUS
    <2> HIDE DEF filters, known, Filter
    <2> QED BY <2>1, <2>2
  <1>4. /\ \A n \in known : StartsWith(target, n) <=> n \in names
        /\ \A n \in names : /\ Len(n) \in Nat /\ Len(n) <= Len(target)
                            /\ Len(n) < UsizeRange /\ n = SubSeq(target, 1, Len(n))
    BY Prefixes
  <1>5. names \subseteq known
    BY DEF NamesOf
  <1>6. \A n \in names : SortKey(n) = IF Len(n) = 0 THEN 0 ELSE UsizeRange - Len(n)
    BY <1>4, SortKeys
  <1>7. \A m, n \in names : Len(m) = Len(n) => m = n
    BY <1>4
  <1>8. Len(target) \in Nat /\ UsizeRange \in Nat /\ Len(<<>>) = 0
    BY LenProperties, UsizeAssumption
  <1>9. \A f : FromStr(f) # NotSet
    BY FromStrFilter DEF LevelFilter, NotSet
  <1> HIDE DEF filters, names, known
  (* It is enough that one name is the first. *)
  <1>10. ASSUME NEW n \in names, \A m \in names : SortKey(n) <= SortKey(m),
                \A m \in names : m # n => SortKey(m) > SortKey(n)
         PROVE  match = FromStr(b.targets[n])
    <2>1. PICK f \in filters : f.name = n
      BY <1>3, <1>5
    <2>2. First(f)
      BY <1>3, <1>4, <1>5, <1>10, <2>1
    <2>3. ASSUME NEW g \in filters, First(g) PROVE g.name = n
      <3>1. g.name \in names
        BY <1>3, <1>4, <2>3
      <3>2. SortKey(g.name) <= SortKey(n)
        BY <1>4, <1>5, <2>1, <2>3
      <3>3. SortKey(g.name) \in Int /\ SortKey(n) \in Int
        BY <1>4, <1>6, <1>8, <3>1
      <3> QED BY <1>10, <3>1, <3>2, <3>3
    <2> HIDE DEF First
    <2>4. /\ (CHOOSE g \in filters : First(g)) \in filters
          /\ First(CHOOSE g \in filters : First(g))
      BY <2>1, <2>2
    <2> QED BY <1>1, <1>3, <2>1, <2>2, <2>3, <2>4
  <1>11. CASE names = {}
    <2>1. \A f \in filters : ~First(f)
      BY <1>3, <1>4, <1>11
    <2>2. match = NotSet
      BY <1>1, <2>1
    <2> QED BY <1>2, <1>11, <2>2
  <1>12. CASE <<>> \in names
    <2>1. \A m \in names : m # <<>> => Len(m) # 0
      BY <1>7, <1>8, <1>12
    <2>2. SortKey(<<>>) = 0 /\ \A m \in names : m # <<>> => SortKey(m) > 0
      BY <1>4, <1>6, <1>8, <1>12, <2>1
    <2>3. \A m \in names : SortKey(<<>>) <= SortKey(m)
      BY <1>4, <1>6, <1>8, <2>2
    <2>4. match = FromStr(b.targets[<<>>])
      BY <1>10, <1>12, <2>2, <2>3
    <2> QED BY <1>2, <1>9, <1>12, <2>4
  <1>13. CASE names # {} /\ <<>> \notin names
    <2> DEFINE lengths == {Len(n) : n \in names}
    <2>1. lengths \in SUBSET Nat /\ lengths # {} /\ \A l \in lengths : l <= Len(target)
      BY <1>4, <1>13
    <2>2. PICK l \in lengths : \A k \in lengths : k <= l
      BY <1>8, <2>1, Greatest
    <2>3. PICK n \in names : l = Len(n)
      BY <2>2
    <2>4. \A m \in names : Len(m) <= Len(n)
      BY <2>2, <2>3
    <2>5. \A m \in names : Len(m) # 0
      <3> SUFFICES ASSUME NEW m \in names, Len(m) = 0 PROVE m = <<>>
        BY <1>13
      <3>1. m = SubSeq(target, 1, 0)
        BY <1>4
      <3>2. SubSeq(target, 1, 0) = <<>>
        BY SubSeqProperties, <1>8
      <3> QED BY <3>1, <3>2
    <2>6. \A m \in names : m # n => Len(m) < Len(n)
      BY <1>4, <1>7, <2>4
    <2>7. \A m \in names : SortKey(m) = UsizeRange - Len(m)
      BY <1>6, <2>5
    <2>8. \A m \in names : m # n => SortKey(m) > SortKey(n)
      BY <1>4, <1>8, <2>6, <2>7
    <2>9. \A m \in names : SortKey(n) <= SortKey(m)
      BY <1>4, <1>8, <2>4, <2>7
    <2>10. match = FromStr(b.targets[n])
      BY <1>10, <2>8, <2>9
    <2>11. Longest(n) /\ \A m \in names : Longest(m) => m = n
      BY <1>4, <2>4, <2>6
    <2> HIDE DEF Longest
    <2>12. n = CHOOSE m \in names : Longest(m)
      BY <2>11
    <2> QED BY <1>2, <1>9, <1>13, <2>10, <2>12
  <1> QED BY <1>11, <1>12, <1>13

(***************************************************************************)
(* on_log of the composite sink calls on_log of exactly the sinks whose    *)
(* level for the event's target lets it through, for all threads, sites,   *)
(* configurations and races for the cached filter.                         *)
(***************************************************************************)
THEOREM OnLogByLevelHolds == Spec => []OnLogByLevel
  <1>1. CallsInv => OnLogByLevel
    <2> SUFFICES ASSUME CallsInv, NEW t \in Threads, At(t, "push"), took[t] # None
                 PROVE  took[t] = {s \in DOMAIN installed.sinks :
                                     arg[t].level <= LevelFor(installed, s, arg[t].target)}
      BY DEF OnLogByLevel
    <2> USE DEF CallsInv
    <2>1. pc[t] = <<"push">>
      BY StepOf DEF At, GuardTypeOK
    <2>2. pc[t] \in Pushing
      BY <2>1 DEF Pushing
    <2>3. /\ arg[t] \in Sites \cup Foreign /\ installed \in Builds
          /\ took[t] = Takers(installed, MatchOf(arg[t]), arg[t].level)
      BY <2>2 DEF CallInv, LockInv
    <2>4. arg[t].target \in Seq(STRING)
      BY <2>3, GuardAssumption
    <2> DEFINE match == MatchOf(arg[t])
    <2>5. match = FindMaxMatch(arg[t].target, TargetFilters(installed))
      BY DEF MatchOf
    <2> HIDE DEF match
    <2>6. \A s : LevelFor(installed, s, arg[t].target)
                   = IF match # NotSet THEN match ELSE installed.sinks[s]
      BY <2>3, <2>4, <2>5, MatchIsLevelFor
    <2> QED BY <2>3, <2>6 DEF Takers, Passes, match
  <1> QED BY <1>1, CallsInductive, PTL

-----------------------------------------------------------------------------
(* The max level. *)

(* The steps of threads that are not building. *)
LEMMA MaxLevelFrame ==
    ASSUME CallsInv, MaxLevelInv, NEW t \in Threads,
           UNCHANGED <<MAX_LEVEL_FILTER, installed, weak_lock, subscriber>>,
           (sink' = "none") <=> (sink = "none"),
           holders = {} => holders' = {},
           pc[t] \notin Locked, NEW p, p \notin Locked, pc' = [pc EXCEPT ![t] = p],
           NEW a, arg' = [arg EXCEPT ![t] = a]
    PROVE  MaxLevelInv'
  <1>1. \A u \in Threads : pc'[u] \in Locked \/ pc[u] \in Locked => pc'[u] = pc[u] /\ arg'[u] = arg[u]
    BY DEF CallsInv, GuardTypeOK
  <1>2. <<"init", "thread">> \in Locked
    BY DEF Locked
  <1> QED BY <1>1, <1>2 DEF MaxLevelInv

LEMMA InitMaxLevelInv == Init => MaxLevelInv
  BY Constants DEF Init, MaxLevelInv

LEMMA MaxLevelInvNext ==
    ASSUME CallsInv, MaxLevelInv, [Next]_vars
    PROVE  MaxLevelInv'
  <1> USE Constants
  <1>0. GuardTypeOK /\ LockInv /\ CallInv /\ CacheInv
    BY DEF CallsInv
  <1>a. ASSUME NEW t \in Threads
        PROVE  /\ pc = [pc EXCEPT ![t] = pc[t]] /\ arg = [arg EXCEPT ![t] = arg[t]]
               /\ Idle(t) => pc[t] \notin Locked
    BY <1>0 DEF GuardTypeOK, Idle
  <1>b. \A p \in Ending \cup Poisoning : p \notin Locked
    BY Disjoint
  <1>c. \A p \in Joined \cup Logging \cup Pushing : p \notin Locked
    BY Places
  <1>d. ASSUME NEW t \in Threads, NEW step, At(t, step)
        PROVE  pc[t] # <<>> /\ Head(pc[t]) = step /\ pc[t] \in Programs
    BY <1>0, <1>d DEF At, GuardTypeOK
  <1>e. ASSUME NEW t \in Threads, NEW step \in {"flush_log", "swap", "flush_thread", "exit"},
               At(t, step)
        PROVE  pc[t] \notin Locked /\ Tail(pc[t]) \notin Locked
    BY <1>b, <1>d, <1>e, StepOf, LockedSteps
  <1>f. ASSUME NEW t \in Threads, NEW step \in {"thread", "load", "cas", "on_log", "push"},
               At(t, step)
        PROVE  pc[t] \notin Locked /\ Tail(pc[t]) \notin Locked
    <2>1. pc[t] \notin Locked
      BY <1>d, <1>f, LockedSteps
    <2>2. Tail(pc[t]) \in {<<>>, <<"push">>}
      BY <1>d, <1>f, StepOf
    <2>3. <<"push">> \in Pushing
      BY DEF Pushing
    <2> QED BY <1>c, <2>1, <2>2, <2>3
  <1>1. ASSUME NEW t \in Threads, FlushLog(t) PROVE MaxLevelInv'
    BY <1>1, <1>a, <1>e, MaxLevelFrame DEF FlushLog, Step, Goto, process, capture
  <1>2. ASSUME NEW t \in Threads, Swap(t) PROVE MaxLevelInv'
    BY <1>2, <1>a, <1>e, MaxLevelFrame DEF Swap, Step, Goto, capture
  <1>3. ASSUME NEW t \in Threads, Panic(t) PROVE MaxLevelInv'
    <2>1. PanicSteps(t) \in Ending
      BY <1>0, BuiltPrograms DEF PanicSteps, GuardTypeOK, Ending
    <2> QED BY <1>3, <1>a, <1>b, <2>1, MaxLevelFrame DEF Panic, Goto, process, capture
  <1>4. ASSUME NEW t \in Threads, CtrlC(t) PROVE MaxLevelInv'
    <2>1. ShutdownTelemetry \o <<"exit">> \in Ending
      BY BuiltPrograms DEF Ending
    <2> QED BY <1>4, <1>a, <1>b, <2>1, MaxLevelFrame DEF CtrlC, Goto, process, capture
  <1>5. ASSUME NEW t \in Threads, Exit(t) PROVE MaxLevelInv'
    BY <1>5, <1>a, <1>e, MaxLevelFrame DEF Exit, Step, Goto, process, capture
  <1>6. ASSUME NEW t \in Threads, NEW b \in Builds, BuildLock(t, b) PROVE MaxLevelInv'
    <2>1. CASE poisoned
      <3>1. PanicSteps(t) \in Ending
        BY <1>0, BuiltPrograms DEF PanicSteps, GuardTypeOK, Ending
      <3> QED BY <1>6, <1>a, <1>b, <2>1, <3>1, MaxLevelFrame DEF BuildLock, Goto, capture
    <2>2. CASE ~poisoned /\ holders # {}
      <3>1. <<"thread">> \notin Locked
        BY <1>c DEF Joined
      <3> QED BY <1>6, <1>a, <2>2, <3>1, MaxLevelFrame DEF BuildLock, Goto, capture
    <2>3. CASE ~poisoned /\ holders = {}
      <3>1. /\ weak_lock = None
            /\ pc' = [pc EXCEPT ![t] = <<"composite", "capture", "init", "thread">>]
            /\ UNCHANGED <<MAX_LEVEL_FILTER, sink, installed, holders, subscriber>>
        BY <1>6, <2>3 DEF BuildLock, Goto, capture
      <3>2. \A u \in Threads : pc[u] \notin Locked
        BY <1>0, <3>1 DEF LockInv
      <3>3. \A u \in Threads : pc'[u] \in Locked => pc'[u] = <<"composite", "capture", "init", "thread">>
        BY <1>0, <3>1, <3>2 DEF GuardTypeOK
      <3>4. sink' = "none" => subscriber' = NotSet
        BY <3>1 DEF MaxLevelInv
      <3> QED BY <2>3, <3>1, <3>3, <3>4 DEF MaxLevelInv
    <2> QED BY <2>1, <2>2, <2>3
  (* The thread that builds is the only one, and nobody has a system guard. *)
  <1>g. ASSUME NEW t \in Threads, pc[t] \in Locked \cup Poisoning
        PROVE  /\ weak_lock = t /\ holders = {}
               /\ \A u \in Threads : u # t => pc[u] \notin Locked
    BY <1>0, <1>g DEF LockInv
  <1>7. ASSUME NEW t \in Threads, BuildComposite(t) PROVE MaxLevelInv'
    <2>1. /\ pc[t] = <<"composite", "capture", "init", "thread">>
          /\ pc' = [pc EXCEPT ![t] = <<"capture", "init", "thread">>]
      BY <1>7, <1>d, StepOf DEF BuildComposite, Step, Goto
    <2>2. pc[t] \in Locked
      BY <2>1 DEF Locked
    <2>3. pc[t] # <<"init", "thread">>
      BY <2>1, Two, Four
    <2>4. sink = "none" => subscriber = NotSet
      BY <1>g, <2>2, <2>3 DEF MaxLevelInv
    <2>5. /\ MAX_LEVEL_FILTER' = CompositeMaxLevel(arg[t])
          /\ UNCHANGED <<sink, holders, subscriber, arg>>
      BY <1>7 DEF BuildComposite, capture
    <2>6. \A u \in Threads : u # t => pc'[u] \notin Locked
      BY <1>0, <1>g, <2>1, <2>2 DEF GuardTypeOK
    <2>7. \A u \in Threads : pc'[u] \in Locked => MAX_LEVEL_FILTER' = CompositeMaxLevel(arg'[u])
      BY <2>5, <2>6
    <2> QED BY <1>g, <2>2, <2>4, <2>5, <2>7 DEF MaxLevelInv
  <1>8. ASSUME NEW t \in Threads, BuildCapture(t) PROVE MaxLevelInv'
    <2>1. pc[t] = <<"capture", "init", "thread">> /\ Tail(pc[t]) = <<"init", "thread">>
      BY <1>8, <1>d, StepOf DEF BuildCapture
    <2>2. pc[t] \in Locked
      BY <2>1 DEF Locked
    <2>3. pc[t] # <<"init", "thread">> /\ pc[t] # <<"composite", "capture", "init", "thread">>
      BY <2>1, Two, Three, Four
    <2>4. MAX_LEVEL_FILTER = CompositeMaxLevel(arg[t])
      BY <2>2, <2>3 DEF MaxLevelInv
    <2>5. sink = "none" => subscriber = NotSet
      BY <1>g, <2>2, <2>3 DEF MaxLevelInv
    <2>6. UNCHANGED <<MAX_LEVEL_FILTER, sink, holders, weak_lock, arg>>
      BY <1>8 DEF BuildCapture, process
    <2>7. PICK p : pc' = [pc EXCEPT ![t] = p]
      BY <1>8 DEF BuildCapture, Step, Goto
    <2>8. pc'[t] = p /\ \A u \in Threads : u # t => pc'[u] \notin Locked
      BY <1>0, <1>g, <2>2, <2>7 DEF GuardTypeOK
    <2>9. \/ subscriber' = subscriber
          \/ /\ subscriber' = InteropMaxLevel(arg[t], CompositeMaxLevel(arg[t]))
             /\ pc'[t] = <<"init", "thread">>
      BY <1>0, <1>8, <2>1, <2>4 DEF BuildCapture, Step, Goto, GuardTypeOK
    <2>10. \A u \in Threads : pc'[u] \in Locked => MAX_LEVEL_FILTER' = CompositeMaxLevel(arg'[u])
      BY <2>4, <2>6, <2>8
    <2>11. weak_lock' = t /\ holders' = {}
      BY <1>g, <2>2, <2>6
    <2> QED BY <2>5, <2>6, <2>9, <2>10, <2>11 DEF MaxLevelInv
  <1>9. ASSUME NEW t \in Threads, Poison(t) PROVE MaxLevelInv'
    <2>1. pc[t] \in Poisoning /\ Tail(pc[t]) = <<"dead">>
      BY <1>9, <1>d, StepOf DEF Poison
    <2>2. pc[t] \notin Locked /\ <<"dead">> \notin Locked
      BY <1>b, <2>1 DEF Ending, Dying
    <2>3. sink = "none" => subscriber = NotSet
      BY <1>g, <2>1, <2>2 DEF MaxLevelInv, Locked
    <2>4. /\ UNCHANGED <<MAX_LEVEL_FILTER, sink, holders, subscriber, arg>>
          /\ pc' = [pc EXCEPT ![t] = <<"dead">>]
      BY <1>9, <2>1 DEF Poison, Step, Goto, capture
    <2>5. \A u \in Threads : pc'[u] \notin Locked
      BY <1>0, <1>g, <2>1, <2>2, <2>4 DEF GuardTypeOK
    <2> QED BY <1>g, <2>1, <2>3, <2>4, <2>5 DEF MaxLevelInv
  <1>10. ASSUME NEW t \in Threads, BuildInit(t) PROVE MaxLevelInv'
    <2>1. pc[t] = <<"init", "thread">> /\ Tail(pc[t]) = <<"thread">>
      BY <1>10, <1>d, StepOf DEF BuildInit
    <2>2. pc[t] \in Locked /\ pc[t] # <<"composite", "capture", "init", "thread">>
      BY <2>1, Two, Four DEF Locked
    <2>3. MAX_LEVEL_FILTER = CompositeMaxLevel(arg[t])
      BY <2>2 DEF MaxLevelInv
    <2>4. weak_lock = t /\ holders = {}
      BY <1>g, <2>2
    <2>5. PICK p \in {<<>>, <<"thread">>} : pc' = [pc EXCEPT ![t] = p]
      BY <1>10, <2>1 DEF BuildInit, Step, Goto
    <2>6. p \notin Locked
      BY <1>c, <2>5 DEF Joined
    <2>7. \A u \in Threads : pc'[u] \notin Locked
      BY <1>0, <1>g, <2>2, <2>5, <2>6 DEF GuardTypeOK
    <2>8. CASE sink = "none"
      <3>1. /\ sink' = "real" /\ installed' = arg[t]
            /\ UNCHANGED <<MAX_LEVEL_FILTER, subscriber>>
        BY <1>10, <2>8 DEF BuildInit, Uninitialized, capture
      <3>2. subscriber # NotSet => subscriber = InteropMaxLevel(arg[t], CompositeMaxLevel(arg[t]))
        BY <2>4, <2>8 DEF MaxLevelInv
      <3> QED BY <2>3, <2>7, <3>1, <3>2 DEF MaxLevelInv
    <2>9. CASE sink # "none"
      <3>1. UNCHANGED <<sink, holders>>
        BY <1>10, <2>9 DEF BuildInit, Uninitialized
      <3> QED BY <2>4, <2>7, <2>9, <3>1 DEF MaxLevelInv
    <2> QED BY <2>8, <2>9
  <1>11. ASSUME NEW t \in Threads, BuildThread(t) PROVE MaxLevelInv'
    BY <1>11, <1>a, <1>f, MaxLevelFrame DEF BuildThread, Step, Goto, process, capture
  <1>12. ASSUME NEW t \in Threads, ThreadGuard(t) PROVE MaxLevelInv'
    BY <1>12, <1>a, MaxLevelFrame DEF ThreadGuard, process, capture, calls
  <1>13. ASSUME NEW t \in Threads, DropGuard(t) PROVE MaxLevelInv'
    <2>1. DropOrder(guards[t]) \in Ending
      BY <1>0, <1>13, BuiltPrograms DEF DropGuard, GuardTypeOK, Ending
    <2> QED BY <1>13, <1>a, <1>b, <2>1, MaxLevelFrame DEF DropGuard, Goto, process, capture
  <1>14. ASSUME NEW t \in Threads, FlushThread(t) PROVE MaxLevelInv'
    BY <1>14, <1>a, <1>e, MaxLevelFrame DEF FlushThread, Step, Goto, process, capture
  <1>15. ASSUME NEW t \in Threads, Release(t) PROVE MaxLevelInv'
    <2>1. Tail(pc[t]) \in {<<>>, <<"dead">>} /\ pc[t] \notin Locked
      BY <1>15, <1>d, StepOf, LockedSteps DEF Release
    <2>2. PICK p \in {Tail(pc[t]), ShutdownTelemetry \o Tail(pc[t])} :
             pc' = [pc EXCEPT ![t] = p]
      BY <1>15 DEF Release, Goto
    <2>3. <<"flush_log", "swap">> \in Ending /\ <<"dead">> \in Ending
      BY DEF Ending, Closing, Dying
    <2>4. p \in Ending
      BY <2>1, <2>2, <2>3, BuiltPrograms DEF Ending
    <2> QED BY <1>15, <1>a, <1>b, <2>1, <2>2, <2>4, MaxLevelFrame DEF Release, capture
  <1>16. ASSUME NEW t \in Threads, Span(t) PROVE MaxLevelInv'
    BY <1>16, <1>a, MaxLevelFrame DEF Span, process, capture, calls
  <1>17. ASSUME NEW t \in Threads, LogFlush(t) PROVE MaxLevelInv'
    BY <1>17, <1>a, MaxLevelFrame DEF LogFlush, process, capture, calls
  <1>h. <<"load">> \notin Locked /\ <<"cas">> \notin Locked /\ <<"on_log", "push">> \notin Locked
        /\ <<"push">> \notin Locked
    BY <1>c DEF Logging, Pushing
  <1>i. ASSUME NEW t \in Threads, NEW x, NEW filter, Decide(t, x, filter), pc[t] \notin Locked,
               UNCHANGED <<MAX_LEVEL_FILTER, installed, weak_lock, subscriber, sink, holders>>
        PROVE  MaxLevelInv'
    <2>1. CASE pc' = [pc EXCEPT ![t] = <<"on_log", "push">>] /\ arg' = [arg EXCEPT ![t] = x]
      BY <1>h, <1>i, <2>1, MaxLevelFrame
    <2>2. CASE pc' = [pc EXCEPT ![t] = <<>>] /\ arg' = [arg EXCEPT ![t] = None]
      BY <1>i, <2>2, MaxLevelFrame
    <2> QED BY <1>i, <2>1, <2>2 DEF Decide, Goto, Set
  <1>18. ASSUME NEW t \in Threads, NEW x \in Sites, Log(t, x) PROVE MaxLevelInv'
    <2>1. /\ UNCHANGED <<MAX_LEVEL_FILTER, installed, weak_lock, subscriber, sink, holders>>
          /\ pc[t] \notin Locked
      BY <1>18, <1>a DEF Log, process, capture
    <2>2. CASE Outdated(level_filter[x])
      <3>1. pc' = [pc EXCEPT ![t] = <<"load">>] /\ arg' = [arg EXCEPT ![t] = x]
        BY <1>18, <2>2 DEF Log, Goto, Set
      <3> QED BY <1>h, <2>1, <3>1, MaxLevelFrame
    <2>3. CASE ~Outdated(level_filter[x])
      BY <1>18, <1>i, <2>1, <2>3 DEF Log
    <2> QED BY <2>2, <2>3
  <1>19. ASSUME NEW t \in Threads, Load(t) PROVE MaxLevelInv'
    <2>1. /\ UNCHANGED <<MAX_LEVEL_FILTER, installed, weak_lock, subscriber, sink, holders>>
          /\ pc[t] \notin Locked
      BY <1>19, <1>f DEF Load, process, capture
    <2>2. CASE Outdated(level_filter[arg[t]])
      <3>1. pc' = [pc EXCEPT ![t] = <<"cas">>] /\ arg' = [arg EXCEPT ![t] = arg[t]]
        BY <1>19, <1>a, <2>2 DEF Load, Goto
      <3> QED BY <1>h, <2>1, <3>1, MaxLevelFrame
    <2>3. CASE ~Outdated(level_filter[arg[t]])
      BY <1>19, <1>i, <2>1, <2>3 DEF Load
    <2> QED BY <2>2, <2>3
  <1>20. ASSUME NEW t \in Threads, Cas(t) PROVE MaxLevelInv'
    <2>1. /\ UNCHANGED <<MAX_LEVEL_FILTER, installed, weak_lock, subscriber, sink, holders>>
          /\ pc[t] \notin Locked /\ Decide(t, arg[t], MatchOf(arg[t]))
      BY <1>20, <1>f DEF Cas, process, capture
    <2> QED BY <1>i, <2>1
  <1>21. ASSUME NEW t \in Threads, OnLog(t) PROVE MaxLevelInv'
    BY <1>21, <1>a, <1>f, MaxLevelFrame DEF OnLog, Step, Goto, process, capture
  <1>22. ASSUME NEW t \in Threads, Push(t) PROVE MaxLevelInv'
    BY <1>22, <1>f, MaxLevelFrame DEF Push, Step, Goto, Set, process, capture
  <1>23. ASSUME NEW t \in Threads, NEW x \in Foreign, LogInterop(t, x) PROVE MaxLevelInv'
    BY <1>23, <1>a, <1>h, MaxLevelFrame DEF LogInterop, Goto, Set, process, capture
  <1>24. ASSUME UNCHANGED vars PROVE MaxLevelInv'
    BY <1>24 DEF vars, process, capture, calls, MaxLevelInv
  <1> QED
    BY <1>1, <1>2, <1>3, <1>4, <1>5, <1>6, <1>7, <1>8, <1>9, <1>10, <1>11, <1>12, <1>13, <1>14,
       <1>15, <1>16, <1>17, <1>18, <1>19, <1>20, <1>21, <1>22, <1>23, <1>24
    DEF Next, Start, Continue

(***************************************************************************)
(* The max level of the process, and that of the subscriber that captures  *)
(* the tracing crate, let through whatever some sink takes.                *)
(***************************************************************************)
THEOREM FastCheckHolds == Spec => []FastCheckConservative
  <1>1. CallsInv /\ MaxLevelInv => FastCheckConservative
    <2> SUFFICES ASSUME CallsInv, MaxLevelInv, holders # {}, installed.override = NotSet,
                        sink = "real", NEW x \in Sites \cup Foreign,
                        OnLogEnabled(installed, MatchOf(x), x.level)
                 PROVE  /\ Passes(x.level, MAX_LEVEL_FILTER)
                        /\ subscriber # NotSet /\ installed.interop = NotSet
                             => Passes(x.level, subscriber)
      BY DEF FastCheckConservative
    <2> DEFINE filters == TargetFilters(installed)
               F == {f.level : f \in filters} \cup {installed.sinks[s] : s \in DOMAIN installed.sinks}
               First(f) == /\ StartsWith(x.target, f.name)
                           /\ \A g \in filters : StartsWith(x.target, g.name)
                                => SortKey(f.name) <= SortKey(g.name)
               top == MaxFilter(F)
    <2>1. installed \in Builds
      BY DEF CallsInv, LockInv
    <2>2. \A f \in filters : f.level \in LevelFilter
      BY FromStrFilter DEF TargetFilters
    <2>3. F \in SUBSET LevelFilter
      BY <2>1, <2>2, GuardAssumption
    <2>4. CompositeMaxLevel(installed) = top
      BY DEF CompositeMaxLevel
    <2>5. top \in LevelFilter /\ \A f \in F : f <= top
      BY <2>3, MaxFilterIsMax
    <2>6. MatchOf(x) = IF \E f \in filters : First(f)
                       THEN (CHOOSE f \in filters : First(f)).level ELSE NotSet
      BY DEF MatchOf, FindMaxMatch
    <2> HIDE DEF filters, First, top
    <2>7. MatchOf(x) # NotSet => MatchOf(x) \in F
      <3>1. CASE \E f \in filters : First(f)
        <4>1. (CHOOSE f \in filters : First(f)) \in filters
          BY <3>1
        <4> QED BY <2>6, <3>1, <4>1
      <3>2. CASE ~ \E f \in filters : First(f)
        BY <2>6, <3>2
      <3> QED BY <3>1, <3>2
    <2>8. PICK s \in DOMAIN installed.sinks :
             Passes(x.level, IF MatchOf(x) # NotSet THEN MatchOf(x) ELSE installed.sinks[s])
      BY DEF OnLogEnabled, Takers
    <2>9. PICK f \in F : Passes(x.level, f)
      BY <2>7, <2>8
    <2>10. x.level \in Nat /\ f \in Nat /\ top \in Nat /\ f <= top
      BY <2>3, <2>5, <2>9, GuardAssumption DEF Level, LevelFilter
    <2>11. x.level <= top
      BY <2>9, <2>10 DEF Passes
    <2>12. /\ MAX_LEVEL_FILTER = top
           /\ subscriber # NotSet => subscriber = InteropMaxLevel(installed, top)
      BY <2>4 DEF MaxLevelInv
    <2> QED BY <2>11, <2>12 DEF Passes, InteropMaxLevel
  <1>2. Spec => []MaxLevelInv
    BY CallsInductive, InitMaxLevelInv, MaxLevelInvNext, PTL DEF Spec
  <1> QED BY <1>1, <1>2, CallsInductive, PTL

-----------------------------------------------------------------------------
(* The life of the sink. *)

LEMMA CalmPlaces ==
    /\ \A p \in Locked \cup Joined \cup Logging \cup Pushing \cup {<<>>} :
          p \in Calm /\ p \notin Drops /\ p \notin Closing
    /\ \A p \in Drops : p \in Calm /\ p \notin Closing /\ p \notin Locked /\ p \notin Joined
    /\ \A p \in Closing : p \in Calm /\ p \notin Drops /\ p \notin Locked /\ p \notin Joined
    /\ \A p \in Locked : p \notin Joined
    /\ \A p \in Logging \cup Pushing : p \notin Locked /\ p \notin Joined
    /\ <<"swap">> \in Closing /\ <<"flush_log", "swap">> \in Closing
    /\ <<"flush_log", "swap">> # <<"swap">>
    /\ <<"flush_thread", "release">> # <<"flush_thread">> /\ <<"release">> # <<"flush_thread">>
    /\ <<"flush_thread">> \in Drops /\ <<"flush_thread", "release">> \in Drops
    /\ <<"release">> \in Drops
  <1>1. \A p \in Drops \cup Closing : p \in Ending
    BY DEF Ending
  <1>2. \A p \in Drops \cup Closing : /\ p \notin Locked /\ p \notin Joined /\ p \notin Logging
                                      /\ p \notin Pushing /\ p # <<>>
    BY <1>1, Disjoint, DropSteps
  <1>3. Drops \cap Closing = {}
    BY DEF Drops, Closing
  <1>4. /\ <<"flush_log", "swap">> # <<"swap">>
        /\ <<"flush_thread", "release">> # <<"flush_thread">> /\ <<"release">> # <<"flush_thread">>
    OBVIOUS
  <1>5. /\ <<"swap">> \in Closing /\ <<"flush_log", "swap">> \in Closing
        /\ <<"flush_thread">> \in Drops /\ <<"flush_thread", "release">> \in Drops
        /\ <<"release">> \in Drops
    BY DEF Closing, Drops
  <1> QED BY <1>2, <1>3, <1>4, <1>5, Places DEF Calm

LEMMA CalmSteps ==
    ASSUME NEW p \in Calm, p # <<>>
    PROVE  /\ Head(p) = "flush_log" => p = <<"flush_log", "swap">> /\ Tail(p) = <<"swap">>
           /\ Head(p) = "swap" => p = <<"swap">> /\ Tail(p) = <<>>
           /\ Head(p) = "flush_thread" =>
                 \/ p = <<"flush_thread">> /\ Tail(p) = <<>>
                 \/ p = <<"flush_thread", "release">> /\ Tail(p) = <<"release">>
           /\ Head(p) = "release" => p = <<"release">> /\ Tail(p) = <<>>
           /\ Head(p) # "poison" /\ Head(p) # "exit"
  <1>1. CASE p \in Locked
    BY <1>1, LockedSteps
  <1>2. CASE p \in Joined \cup Logging \cup Pushing
    BY <1>2, CallSteps
  <1>3. CASE p \in Drops \cup Closing
    BY <1>3, DropSteps
  <1> QED BY <1>1, <1>2, <1>3 DEF Calm

CalmInv == HolderInv /\ AliveInv /\ FlushedInv

LEMMA HolderFrame ==
    ASSUME CallsInv, HolderInv, NEW t \in Threads,
           NEW p, pc' = [pc EXCEPT ![t] = p],
           NEW g, guards' = [guards EXCEPT ![t] = g],
           holders' \ {t} = holders \ {t},
           HolderOf(t, p, g, holders')
    PROVE  /\ HolderInv'
           /\ pc'[t] = p /\ guards'[t] = g
           /\ \A u \in Threads : u # t => pc'[u] = pc[u] /\ guards'[u] = guards[u]
  <1>1. /\ pc'[t] = p /\ guards'[t] = g
        /\ \A u \in Threads : u # t => pc'[u] = pc[u] /\ guards'[u] = guards[u]
    BY DEF CallsInv, GuardTypeOK
  <1>2. ASSUME NEW u \in Threads, u # t
        PROVE  HolderOf(u, pc'[u], guards'[u], holders')
    <2>1. u \in holders' <=> u \in holders
      BY <1>2
    <2>2. HolderOf(u, pc[u], guards[u], holders)
      BY DEF HolderInv
    <2> QED BY <1>1, <1>2, <2>1, <2>2 DEF HolderOf
  <1> QED BY <1>1, <1>2 DEF HolderInv

(* The steps that neither take nor drop a guard. *)
LEMMA CalmFrame ==
    ASSUME CallsInv, CalmInv, NEW t \in Threads,
           UNCHANGED <<sink, holders, guards, outlived, lost_spans>>,
           logs' \subseteq logs, lost_logs' = {},
           NEW p \in {<<>>} \cup Locked \cup Logging \cup Pushing, pc' = [pc EXCEPT ![t] = p],
           pc[t] \in {<<>>} \cup Locked \cup Logging \cup Pushing,
           p \in Locked => guards[t] = "none"
    PROVE  CalmInv'
  <1> USE DEF CalmInv
  <1>1. /\ p \in Calm /\ p \notin Drops /\ p \notin Closing /\ p \notin Joined
        /\ pc[t] \notin Joined /\ p # <<"flush_thread">> /\ p # <<"swap">>
    BY CalmPlaces, Constants
  <1>2. guards' = [guards EXCEPT ![t] = guards[t]]
    BY DEF CallsInv, GuardTypeOK
  <1>3. HolderOf(t, p, guards[t], holders')
    BY <1>1 DEF HolderInv, HolderOf
  <1>4. /\ HolderInv' /\ pc'[t] = p
        /\ \A u \in Threads : u # t => pc'[u] = pc[u]
    BY <1>2, <1>3, HolderFrame
  <1>5. \A u \in Threads : /\ pc'[u] \in Closing => pc[u] \in Closing
                           /\ pc'[u] = <<"swap">> => pc[u] = <<"swap">>
    BY <1>1, <1>4
  <1>6. AliveInv'
    BY <1>5 DEF AliveInv
  <1>7. FlushedInv'
    BY <1>5 DEF FlushedInv
  <1> QED BY <1>4, <1>6, <1>7

LEMMA InitGuardInv == Init => GuardInv
  <1> SUFFICES ASSUME Init PROVE HolderInv /\ AliveInv /\ FlushedInv
    BY DEF GuardInv
  <1>1. \A t \in Threads : /\ pc[t] = <<>> /\ pc[t] \in Calm /\ pc[t] \notin Drops
                           /\ pc[t] \notin Closing /\ pc[t] \notin Joined /\ pc[t] \notin Locked
                           /\ pc[t] # <<"flush_thread">> /\ pc[t] # <<"swap">>
    BY Constants, CalmPlaces DEF Init
  <1> QED BY <1>1 DEF Init, HolderInv, HolderOf, AliveInv, FlushedInv

LEMMA CalmInvNext ==
    ASSUME CallsInv, CalmInv, [Next]_vars, ~early, ~early'
    PROVE  CalmInv'
  <1> USE Constants, CalmPlaces
  <1>0. GuardTypeOK /\ LockInv /\ CallInv /\ CacheInv /\ HolderInv /\ AliveInv /\ FlushedInv
    BY DEF CallsInv, CalmInv
  <1>a. ASSUME NEW t \in Threads
        PROVE  /\ pc = [pc EXCEPT ![t] = pc[t]] /\ guards = [guards EXCEPT ![t] = guards[t]]
               /\ guards[t] \in {"none", "thread", "full"} /\ pc[t] \in Calm
               /\ t \in holders => sink = "real" /\ holders # {}
    BY <1>0 DEF GuardTypeOK, HolderInv, HolderOf, AliveInv
  <1>d. ASSUME NEW t \in Threads, NEW step, At(t, step)
        PROVE  /\ pc[t] # <<>> /\ Head(pc[t]) = step /\ pc[t] \in Calm /\ pc[t] \in Programs
               /\ step # "poison" /\ step # "exit"
    BY <1>0, <1>d, CalmSteps DEF At, GuardTypeOK, HolderInv, HolderOf
  <1>l. /\ <<"load">> \in Logging /\ <<"cas">> \in Logging /\ <<"on_log", "push">> \in Logging
        /\ <<"push">> \in Pushing /\ <<"thread">> \in Joined
        /\ <<"init", "thread">> \in Locked /\ <<"capture", "init", "thread">> \in Locked
        /\ <<"composite", "capture", "init", "thread">> \in Locked
    BY DEF Logging, Pushing, Joined, Locked
  (* In the rest of a shutdown, and whenever the null sink is there, nobody  *)
  (* has a system guard.                                                     *)
  <1>b. ASSUME NEW t \in Threads, pc[t] \in Closing
        PROVE  /\ holders = {} /\ sink # "none" /\ guards[t] = "none"
               /\ pc[t] = <<"swap">> => logs = {}
    BY <1>0, <1>b DEF AliveInv, HolderInv, HolderOf, FlushedInv
  <1>1. ASSUME NEW t \in Threads, FlushLog(t) PROVE CalmInv'
    <2>1. pc[t] = <<"flush_log", "swap">> /\ pc' = [pc EXCEPT ![t] = <<"swap">>]
      BY <1>1, <1>d, CalmSteps DEF FlushLog, Step, Goto
    <2>2. holders = {} /\ sink # "none" /\ guards[t] = "none"
      BY <1>b, <2>1
    <2>3. UNCHANGED <<sink, holders, guards, outlived, lost_spans>>
      BY <1>1 DEF FlushLog, process, threads
    <2>4. logs' = {} /\ lost_logs' = {}
      BY <1>0, <1>1 DEF FlushLog, FlushLogBuffer, FlushedInv
    <2>5. /\ HolderInv' /\ pc'[t] = <<"swap">>
          /\ \A u \in Threads : u # t => pc'[u] = pc[u] /\ guards'[u] = guards[u]
      <3>1. HolderOf(t, <<"swap">>, guards[t], holders')
        BY <2>2, <2>3 DEF HolderOf
      <3> QED BY <1>0, <1>a, <2>1, <2>3, <3>1, HolderFrame
    <2>6. AliveInv'
      BY <1>0, <2>2, <2>3, <2>5 DEF AliveInv
    <2>7. FlushedInv'
      BY <1>0, <2>3, <2>4 DEF FlushedInv
    <2> QED BY <2>5, <2>6, <2>7 DEF CalmInv
  <1>2. ASSUME NEW t \in Threads, Swap(t) PROVE CalmInv'
    <2>1. pc[t] = <<"swap">> /\ pc' = [pc EXCEPT ![t] = <<>>]
      BY <1>2, <1>d, CalmSteps DEF Swap, Step, Goto
    <2>2. holders = {} /\ sink # "none" /\ guards[t] = "none" /\ logs = {}
      BY <1>b, <2>1
    <2>3. /\ sink' = "null" /\ UNCHANGED <<holders, guards, logs, lost_logs, lost_spans>>
          /\ outlived' = IF sink = "real" THEN outlived \cup {u \in Threads : guards[u] = "thread"}
                         ELSE outlived
      BY <1>2, <2>2 DEF Swap, threads, content
    <2>4. HolderInv'
      <3>1. HolderOf(t, <<>>, guards[t], holders')
        BY <2>2, <2>3 DEF HolderOf
      <3> QED BY <1>0, <1>a, <2>1, <2>3, <3>1, HolderFrame
    <2>5. AliveInv'
      BY <2>2, <2>3 DEF AliveInv
    <2>6. \A u \in Threads : guards[u] = "thread" => u \in outlived'
      BY <1>0, <2>2, <2>3 DEF FlushedInv, GuardTypeOK
    <2>7. FlushedInv'
      BY <1>0, <2>2, <2>3, <2>6 DEF FlushedInv
    <2> QED BY <2>4, <2>5, <2>7 DEF CalmInv
  <1>3. ASSUME NEW t \in Threads, Panic(t) \/ CtrlC(t) PROVE CalmInv'
    BY <1>3 DEF Panic, CtrlC
  <1>4. ASSUME NEW t \in Threads, Exit(t) \/ Poison(t) PROVE CalmInv'
    BY <1>4, <1>d DEF Exit, Poison
  <1>5. ASSUME NEW t \in Threads, NEW b \in Builds, BuildLock(t, b) PROVE CalmInv'
    <2>1. CASE poisoned
      BY <1>5, <2>1 DEF BuildLock
    <2>2. CASE ~poisoned /\ holders # {}
      <3>1. /\ holders' = holders \cup {t} /\ pc' = [pc EXCEPT ![t] = <<"thread">>]
            /\ guards[t] = "none"
            /\ UNCHANGED <<sink, guards, logs, lost_logs, outlived, lost_spans>>
        BY <1>5, <2>2 DEF BuildLock, Goto, threads, content
      <3>2. /\ HolderInv' /\ pc'[t] = <<"thread">>
            /\ \A u \in Threads : u # t => pc'[u] = pc[u]
        <4>1. HolderOf(t, <<"thread">>, guards[t], holders')
          BY <1>l, <3>1 DEF HolderOf
        <4>2. holders' \ {t} = holders \ {t}
          BY <3>1
        <4>3. guards' = [guards EXCEPT ![t] = guards[t]]
          BY <1>a, <3>1
        <4> QED BY <1>0, <3>1, <4>1, <4>2, <4>3, HolderFrame
      <3>3. \A u \in Threads : pc'[u] \notin Closing
        BY <1>0, <1>l, <2>2, <3>2 DEF AliveInv
      <3>4. AliveInv'
        BY <1>0, <2>2, <3>1, <3>3 DEF AliveInv
      <3>5. FlushedInv'
        BY <1>0, <3>1, <3>3 DEF FlushedInv
      <3> QED BY <3>2, <3>4, <3>5 DEF CalmInv
    <2>3. CASE ~poisoned /\ holders = {}
      <3>1. /\ pc' = [pc EXCEPT ![t] = <<"composite", "capture", "init", "thread">>]
            /\ guards[t] = "none" /\ pc[t] = <<>>
            /\ UNCHANGED <<sink, holders, guards, logs, lost_logs, outlived, lost_spans>>
        BY <1>5, <2>3 DEF BuildLock, Goto, Idle, threads, content
      <3> QED BY <1>0, <1>l, <3>1, CalmFrame DEF FlushedInv
    <2> QED BY <2>1, <2>2, <2>3
  <1>6. ASSUME NEW t \in Threads, BuildComposite(t) PROVE CalmInv'
    <2>1. /\ pc[t] \in Locked /\ Tail(pc[t]) \in Locked
      BY <1>6, <1>d, <1>l, StepOf DEF BuildComposite
    <2>2. guards[t] = "none"
      BY <1>0, <2>1 DEF HolderInv, HolderOf
    <2> QED BY <1>0, <1>6, <2>1, <2>2, CalmFrame
         DEF BuildComposite, Step, Goto, FlushedInv, threads, content, history
  <1>7. ASSUME NEW t \in Threads, BuildCapture(t) PROVE CalmInv'
    <2>1. /\ pc[t] \in Locked /\ Tail(pc[t]) \in Locked
      BY <1>7, <1>d, <1>l, StepOf DEF BuildCapture
    <2>2. guards[t] = "none"
      BY <1>0, <2>1 DEF HolderInv, HolderOf
    <2>3. pc' = [pc EXCEPT ![t] = Tail(pc[t])]
      BY <1>7 DEF BuildCapture, Step, Goto
    <2> QED BY <1>0, <1>7, <2>1, <2>2, <2>3, CalmFrame
         DEF BuildCapture, FlushedInv, process, threads, content
  <1>8. ASSUME NEW t \in Threads, BuildInit(t) PROVE CalmInv'
    <2>1. pc[t] = <<"init", "thread">> /\ Tail(pc[t]) = <<"thread">>
      BY <1>8, <1>d, StepOf DEF BuildInit
    <2>2. pc[t] \in Locked /\ holders = {} /\ guards[t] = "none"
      BY <1>0, <1>l, <2>1 DEF LockInv, HolderInv, HolderOf
    <2>3. UNCHANGED <<guards, logs, lost_logs, outlived, lost_spans>>
      BY <1>8 DEF BuildInit, threads, content, history
    <2>4. CASE sink = "none"
      <3>1. sink' = "real" /\ holders' = {t} /\ pc' = [pc EXCEPT ![t] = <<"thread">>]
        BY <1>8, <2>1, <2>4 DEF BuildInit, Uninitialized, Step, Goto
      <3>2. /\ HolderInv' /\ pc'[t] = <<"thread">>
            /\ \A u \in Threads : u # t => pc'[u] = pc[u]
        <4>1. HolderOf(t, <<"thread">>, guards[t], holders')
          BY <1>l, <2>2, <2>3, <3>1 DEF HolderOf
        <4>2. holders' \ {t} = holders \ {t}
          BY <2>2, <3>1
        <4>3. guards' = [guards EXCEPT ![t] = guards[t]]
          BY <1>a, <2>2, <2>3, <3>1
        <4> QED BY <1>0, <3>1, <4>1, <4>2, <4>3, HolderFrame
      <3>3. \A u \in Threads : pc'[u] \notin Closing
        BY <1>0, <1>l, <2>4, <3>2 DEF AliveInv
      <3>4. AliveInv'
        BY <3>1, <3>3 DEF AliveInv
      <3>5. FlushedInv'
        BY <1>0, <2>3, <3>1, <3>3 DEF FlushedInv
      <3> QED BY <3>2, <3>4, <3>5 DEF CalmInv
    <2>5. CASE sink # "none"
      <3>1. UNCHANGED <<sink, holders>> /\ pc' = [pc EXCEPT ![t] = <<>>]
        BY <1>8, <2>5 DEF BuildInit, Uninitialized, Goto
      <3> QED BY <1>0, <2>2, <2>3, <3>1, CalmFrame DEF FlushedInv
    <2> QED BY <2>4, <2>5
  <1>9. ASSUME NEW t \in Threads, BuildThread(t) PROVE CalmInv'
    <2>1. pc[t] = <<"thread">> /\ Tail(pc[t]) = <<>>
      BY <1>9, <1>d, StepOf DEF BuildThread
    <2>2. t \in holders /\ sink = "real"
      BY <1>0, <1>a, <1>l, <2>1 DEF HolderInv, HolderOf
    <2>3. /\ guards' = [guards EXCEPT ![t] = "full"] /\ pc' = [pc EXCEPT ![t] = <<>>]
          /\ UNCHANGED <<sink, holders, logs, lost_logs, outlived, lost_spans>>
      BY <1>9, <2>1 DEF BuildThread, Step, Goto, Set, process, content, history
    <2>4. /\ HolderInv' /\ pc'[t] = <<>>
          /\ \A u \in Threads : u # t => pc'[u] = pc[u]
      <3>1. HolderOf(t, <<>>, "full", holders')
        BY <2>2, <2>3 DEF HolderOf
      <3> QED BY <1>0, <2>3, <3>1, HolderFrame
    <2>5. \A u \in Threads : pc'[u] \notin Closing
      BY <1>0, <2>2, <2>4 DEF AliveInv
    <2>6. AliveInv'
      BY <2>2, <2>3, <2>5 DEF AliveInv
    <2>7. FlushedInv'
      BY <1>0, <2>2, <2>3, <2>5 DEF FlushedInv
    <2> QED BY <2>4, <2>6, <2>7 DEF CalmInv
  <1>10. ASSUME NEW t \in Threads, ThreadGuard(t) PROVE CalmInv'
    <2>1. /\ pc[t] = <<>> /\ guards[t] = "none"
          /\ guards' = [guards EXCEPT ![t] = "thread"]
          /\ outlived' = IF sink = "real" THEN outlived ELSE outlived \cup {t}
          /\ UNCHANGED <<sink, holders, pc, logs, lost_logs, lost_spans>>
      BY <1>10 DEF ThreadGuard, Idle, Set, process, calls, content
    <2>2. t \notin holders
      BY <1>0, <2>1 DEF HolderInv, HolderOf
    <2>3. pc' = [pc EXCEPT ![t] = <<>>]
      BY <1>a, <2>1
    <2>4. /\ HolderInv'
          /\ \A u \in Threads : u # t => guards'[u] = guards[u]
      <3>1. HolderOf(t, <<>>, "thread", holders')
        BY <2>1, <2>2 DEF HolderOf
      <3> QED BY <1>0, <2>1, <2>3, <3>1, HolderFrame
    <2>5. AliveInv'
      BY <1>0, <2>1 DEF AliveInv
    <2>6. FlushedInv'
      BY <1>0, <2>1, <2>4 DEF FlushedInv
    <2> QED BY <2>4, <2>5, <2>6 DEF CalmInv
  <1>11. ASSUME NEW t \in Threads, DropGuard(t) PROVE CalmInv'
    <2> DEFINE p == DropOrder(guards[t])
    <2>1. /\ pc[t] = <<>> /\ guards[t] # "none" /\ pc' = [pc EXCEPT ![t] = p]
          /\ UNCHANGED <<sink, holders, guards, logs, lost_logs, outlived, lost_spans>>
      BY <1>11 DEF DropGuard, Goto, Idle, process, threads, content, history
    <2>2. \/ guards[t] = "thread" /\ p = <<"flush_thread">>
          \/ guards[t] = "full" /\ p = <<"flush_thread", "release">>
      BY <1>a, <2>1 DEF DropOrder
    <2>3. t \in holders <=> guards[t] = "full"
      BY <1>0, <2>1 DEF HolderInv, HolderOf
    <2> HIDE DEF p
    <2>4. /\ p \in Drops /\ (p = <<"flush_thread">> <=> guards[t] = "thread")
      BY <2>2
    <2>5. /\ HolderInv' /\ pc'[t] = p
          /\ \A u \in Threads : u # t => pc'[u] = pc[u]
      <3>1. HolderOf(t, p, guards[t], holders')
        BY <2>1, <2>2, <2>3, <2>4 DEF HolderOf
      <3> QED BY <1>0, <1>a, <2>1, <3>1, HolderFrame
    <2>6. \A u \in Threads : /\ pc'[u] \in Closing => pc[u] \in Closing
                             /\ pc'[u] = <<"swap">> => pc[u] = <<"swap">>
      BY <2>4, <2>5
    <2>7. AliveInv'
      BY <1>0, <2>1, <2>6 DEF AliveInv
    <2>8. FlushedInv'
      BY <1>0, <2>1, <2>6 DEF FlushedInv
    <2> QED BY <2>5, <2>7, <2>8 DEF CalmInv
  <1>12. ASSUME NEW t \in Threads, FlushThread(t) PROVE CalmInv'
    <2>0. /\ UNCHANGED <<sink, holders, logs, lost_logs, outlived>>
          /\ pc' = [pc EXCEPT ![t] = Tail(pc[t])]
          /\ lost_spans' = IF sink = "null" /\ t \in spans THEN lost_spans \cup {t} ELSE lost_spans
          /\ guards' = IF guards[t] = "thread" THEN [guards EXCEPT ![t] = "none"] ELSE guards
      BY <1>12 DEF FlushThread, Step, Goto, Set, process
    <2>1. \/ pc[t] = <<"flush_thread">> /\ Tail(pc[t]) = <<>>
          \/ pc[t] = <<"flush_thread", "release">> /\ Tail(pc[t]) = <<"release">>
      BY <1>12, <1>d, CalmSteps DEF FlushThread
    (* It loses spans only if the sink went before its bare thread guard. *)
    <2>2. /\ HolderInv'
          /\ \A u \in Threads : /\ pc'[u] \in Closing => pc[u] \in Closing
                                /\ pc'[u] = <<"swap">> => pc[u] = <<"swap">>
                                /\ guards'[u] = "thread" => guards[u] = "thread"
          /\ lost_spans' \subseteq outlived
      <3>1. CASE pc[t] = <<"flush_thread">> /\ Tail(pc[t]) = <<>>
        <4>1. guards[t] = "thread" /\ t \notin holders
          BY <1>0, <3>1 DEF HolderInv, HolderOf
        <4>2. pc' = [pc EXCEPT ![t] = <<>>] /\ guards' = [guards EXCEPT ![t] = "none"]
          BY <2>0, <3>1, <4>1
        <4>3. /\ HolderInv' /\ pc'[t] = <<>> /\ guards'[t] = "none"
              /\ \A u \in Threads : u # t => pc'[u] = pc[u] /\ guards'[u] = guards[u]
          <5>1. HolderOf(t, <<>>, "none", holders')
            BY <2>0, <4>1 DEF HolderOf
          <5> QED BY <1>0, <2>0, <4>2, <5>1, HolderFrame
        <4>4. lost_spans' \subseteq outlived
          BY <1>0, <2>0, <4>1 DEF FlushedInv
        <4> QED BY <4>3, <4>4
      <3>2. CASE pc[t] = <<"flush_thread", "release">> /\ Tail(pc[t]) = <<"release">>
        <4>1. guards[t] = "full" /\ t \in holders
          BY <1>0, <3>2 DEF HolderInv, HolderOf
        <4>2. sink = "real"
          BY <1>a, <4>1
        <4>3. guards' = [guards EXCEPT ![t] = "full"]
          BY <1>a, <2>0, <4>1
        <4> DEFINE p == <<"release">>
        <4>4. p \in Drops /\ p # <<"flush_thread">> /\ pc' = [pc EXCEPT ![t] = p]
          BY <2>0, <3>2
        <4> HIDE DEF p
        <4>5. /\ HolderInv' /\ pc'[t] = p
              /\ \A u \in Threads : u # t => pc'[u] = pc[u]
          <5>1. HolderOf(t, p, "full", holders')
            BY <2>0, <4>1, <4>4 DEF HolderOf
          <5> QED BY <1>0, <2>0, <4>3, <4>4, <5>1, HolderFrame
        <4>6. guards' = guards /\ lost_spans' = lost_spans
          BY <2>0, <4>1, <4>2
        <4> QED BY <1>0, <4>4, <4>5, <4>6 DEF FlushedInv
      <3> QED BY <2>1, <3>1, <3>2
    <2>3. AliveInv'
      BY <1>0, <2>0, <2>2 DEF AliveInv
    <2>4. FlushedInv'
      BY <1>0, <2>0, <2>2 DEF FlushedInv
    <2> QED BY <2>2, <2>3, <2>4 DEF CalmInv
  <1>13. ASSUME NEW t \in Threads, Release(t) PROVE CalmInv'
    <2>1. pc[t] = <<"release">> /\ Tail(pc[t]) = <<>>
      BY <1>13, <1>d, CalmSteps DEF Release
    <2>2. t \in holders /\ sink = "real" /\ holders # {}
      BY <1>0, <1>a, <2>1 DEF HolderInv, HolderOf
    <2>3. /\ holders' = holders \ {t} /\ guards' = [guards EXCEPT ![t] = "none"]
          /\ UNCHANGED <<sink, logs, lost_logs, outlived, lost_spans>>
      BY <1>13 DEF Release, Set, content, history
    <2> DEFINE p == IF holders = {t} THEN <<"flush_log", "swap">> ELSE <<>>
    <2>4. pc' = [pc EXCEPT ![t] = p]
      BY <1>13, <2>1, BuiltPrograms DEF Release, Goto, LastHolder
    <2>5. /\ p \in Calm /\ p \notin Joined /\ p \notin Drops /\ p \notin Locked
          /\ p # <<"flush_thread">> /\ p # <<"swap">> /\ (p \in Closing => holders = {t})
      OBVIOUS
    <2> HIDE DEF p
    <2>6. /\ HolderInv' /\ pc'[t] = p /\ guards'[t] = "none"
          /\ \A u \in Threads : u # t => pc'[u] = pc[u] /\ guards'[u] = guards[u]
      <3>1. HolderOf(t, p, "none", holders')
        BY <2>3, <2>5 DEF HolderOf
      <3>2. holders' \ {t} = holders \ {t}
        BY <2>3
      <3> QED BY <1>0, <2>3, <2>4, <3>1, <3>2, HolderFrame
    <2>7. \A u \in Threads : u # t => pc'[u] \notin Closing
      BY <1>0, <2>2, <2>6 DEF AliveInv
    <2>8. AliveInv'
      BY <2>2, <2>3, <2>5, <2>6, <2>7 DEF AliveInv
    <2>9. FlushedInv'
      BY <1>0, <2>2, <2>3, <2>5, <2>6, <2>7 DEF FlushedInv
    <2> QED BY <2>6, <2>8, <2>9 DEF CalmInv
  <1>14. ASSUME NEW t \in Threads, Span(t) PROVE CalmInv'
    BY <1>0, <1>14, <1>a, CalmFrame
    DEF Span, Idle, FlushedInv, process, calls, threads, history
  <1>15. ASSUME NEW t \in Threads, LogFlush(t) PROVE CalmInv'
    <2>1. logs' = {} /\ lost_logs' = {}
      BY <1>0, <1>15 DEF LogFlush, FlushLogBuffer, FlushedInv
    <2> QED BY <1>15, <1>a, <2>1, CalmFrame DEF LogFlush, Idle, process, calls, threads
  <1>i. ASSUME NEW t \in Threads, NEW x, NEW filter, Decide(t, x, filter),
               pc[t] \in {<<>>} \cup Logging,
               UNCHANGED <<sink, holders, guards, outlived, lost_spans, logs, lost_logs>>
        PROVE  CalmInv'
    <2>1. CASE pc' = [pc EXCEPT ![t] = <<"on_log", "push">>]
      BY <1>0, <1>i, <1>l, <2>1, CalmFrame DEF FlushedInv
    <2>2. CASE pc' = [pc EXCEPT ![t] = <<>>]
      BY <1>0, <1>i, <2>2, CalmFrame DEF FlushedInv
    <2> QED BY <1>i, <2>1, <2>2 DEF Decide, Goto
  <1>16. ASSUME NEW t \in Threads, NEW x \in Sites, Log(t, x) PROVE CalmInv'
    <2>1. /\ UNCHANGED <<sink, holders, guards, outlived, lost_spans, logs, lost_logs>>
          /\ pc[t] = <<>>
      BY <1>16 DEF Log, Idle, process, threads, content, history
    <2>2. CASE Outdated(level_filter[x])
      <3>1. pc' = [pc EXCEPT ![t] = <<"load">>]
        BY <1>16, <2>2 DEF Log, Goto
      <3> QED BY <1>0, <1>l, <2>1, <3>1, CalmFrame DEF FlushedInv
    <2>3. CASE ~Outdated(level_filter[x])
      BY <1>16, <1>i, <2>1, <2>3 DEF Log
    <2> QED BY <2>2, <2>3
  <1>17. ASSUME NEW t \in Threads, Load(t) PROVE CalmInv'
    <2>1. /\ UNCHANGED <<sink, holders, guards, outlived, lost_spans, logs, lost_logs>>
          /\ pc[t] \in Logging
      BY <1>17, <1>d, <1>l, StepOf DEF Load, process, threads, content, history
    <2>2. CASE Outdated(level_filter[arg[t]])
      <3>1. pc' = [pc EXCEPT ![t] = <<"cas">>]
        BY <1>17, <2>2 DEF Load, Goto
      <3> QED BY <1>0, <1>l, <2>1, <3>1, CalmFrame DEF FlushedInv
    <2>3. CASE ~Outdated(level_filter[arg[t]])
      BY <1>17, <1>i, <2>1, <2>3 DEF Load
    <2> QED BY <2>2, <2>3
  <1>18. ASSUME NEW t \in Threads, Cas(t) PROVE CalmInv'
    <2>1. /\ UNCHANGED <<sink, holders, guards, outlived, lost_spans, logs, lost_logs>>
          /\ pc[t] \in Logging /\ Decide(t, arg[t], MatchOf(arg[t]))
      BY <1>18, <1>d, <1>l, StepOf DEF Cas, process, threads, content, history
    <2> QED BY <1>i, <2>1
  <1>19. ASSUME NEW t \in Threads, OnLog(t) PROVE CalmInv'
    <2>1. pc[t] \in Logging /\ Tail(pc[t]) \in Pushing
      BY <1>19, <1>d, <1>l, StepOf DEF OnLog
    <2> QED BY <1>0, <1>19, <2>1, CalmFrame
         DEF OnLog, Step, Goto, FlushedInv, process, threads, content, history
  (* Who pushes under a guard holds the sink, and no shutdown is under way. *)
  <1>20. ASSUME NEW t \in Threads, Push(t) PROVE CalmInv'
    <2>1. pc[t] \in Pushing /\ Tail(pc[t]) = <<>>
      BY <1>20, <1>d, <1>l, StepOf DEF Push
    <2>2. /\ UNCHANGED <<sink, holders, guards, outlived, lost_spans, lost_logs>>
          /\ pc' = [pc EXCEPT ![t] = <<>>]
          /\ logs' = IF guards[t] = "full" THEN logs \cup {t} ELSE logs
      BY <1>20, <2>1 DEF Push, Step, Goto, process, threads, history
    <2>3. CASE guards[t] # "full"
      BY <1>0, <2>1, <2>2, <2>3, CalmFrame DEF FlushedInv
    <2>4. CASE guards[t] = "full"
      <3>1. t \in holders /\ sink = "real" /\ holders # {}
        BY <1>0, <1>a, <2>4 DEF HolderInv, HolderOf
      <3>2. HolderInv' /\ pc'[t] = <<>> /\ \A u \in Threads : u # t => pc'[u] = pc[u]
        <4>1. HolderOf(t, <<>>, guards[t], holders')
          BY <2>2, <2>4, <3>1 DEF HolderOf
        <4> QED BY <1>0, <1>a, <2>2, <4>1, HolderFrame
      <3>3. \A u \in Threads : pc'[u] \notin Closing
        BY <1>0, <3>1, <3>2 DEF AliveInv
      <3>4. AliveInv'
        BY <2>2, <3>1, <3>3 DEF AliveInv
      <3>5. FlushedInv'
        BY <1>0, <2>2, <3>1, <3>3 DEF FlushedInv
      <3> QED BY <3>2, <3>4, <3>5 DEF CalmInv
    <2> QED BY <2>3, <2>4
  <1>21. ASSUME NEW t \in Threads, NEW x \in Foreign, LogInterop(t, x) PROVE CalmInv'
    BY <1>0, <1>21, <1>l, CalmFrame
    DEF LogInterop, Idle, Goto, FlushedInv, process, threads, content, history
  <1>22. ASSUME UNCHANGED vars PROVE CalmInv'
    BY <1>0, <1>22 DEF vars, process, calls, threads, content, history, CalmInv, HolderInv, HolderOf,
       AliveInv, FlushedInv
  <1> QED
    BY <1>1, <1>2, <1>3, <1>4, <1>5, <1>6, <1>7, <1>8, <1>9, <1>10, <1>11, <1>12, <1>13, <1>14,
       <1>15, <1>16, <1>17, <1>18, <1>19, <1>20, <1>21, <1>22
    DEF Next, Start, Continue

LEMMA GuardInductive == Spec => []GuardInv
  <1>1. ASSUME CallsInv, GuardInv, [Next]_vars PROVE GuardInv'
    <2> SUFFICES ASSUME ~early' PROVE CalmInv'
      BY DEF GuardInv, CalmInv
    <2>1. early' = early \/ early' = TRUE
      BY <1>1 DEF Next, Start, Continue, vars, history, FlushLog, Swap, Panic, CtrlC, Exit,
         BuildLock, BuildComposite, BuildCapture, Poison, BuildInit, BuildThread, ThreadGuard,
         DropGuard, FlushThread, Release, Span, Log, Load, Cas, OnLog, Push, LogInterop, LogFlush
    <2>2. ~early
      BY <2>1
    <2> QED BY <1>1, <2>2, CalmInvNext DEF GuardInv, CalmInv
  <1> QED BY <1>1, InitGuardInv, CallsInductive, PTL DEF Spec

(***************************************************************************)
(* While a thread holds a TelemetryGuard the sink that was built is in     *)
(* place, unless a panic or Ctrl-C shut telemetry down.                    *)
(***************************************************************************)
THEOREM SinkAliveHolds == Spec => []SinkAliveWhileHeld
  <1>1. GuardInv => SinkAliveWhileHeld
    BY DEF GuardInv, AliveInv, SinkAliveWhileHeld
  <1> QED BY <1>1, GuardInductive, PTL

(***************************************************************************)
(* Logs of guard holders are never lost, and spans only by threads whose   *)
(* bare thread guard outlived the sink, unless a panic or Ctrl-C shut      *)
(* telemetry down.                                                         *)
(***************************************************************************)
THEOREM GuardedEventsHolds == Spec => []GuardedEventsDelivered
  <1>1. GuardInv => GuardedEventsDelivered
    BY DEF GuardInv, FlushedInv, GuardedEventsDelivered
  <1> QED BY <1>1, GuardInductive, PTL

=============================================================================
