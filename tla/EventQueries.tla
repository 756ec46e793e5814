----------------------------- MODULE EventQueries -----------------------------
(***************************************************************************)
(* From a log call, a metric or a span to a row of a query's answer: the   *)
(* blocks of one stream, encoded in the transit format (Transit.tla), and  *)
(* query_log_entries, query_metrics and query_thread_events over those of  *)
(* them that reached the data lake.                                        *)
(*                                                                         *)
(* The stream is of one kind.  Events of a shared stream are stamped       *)
(* before the stream's lock is taken: another event, or a flush, may come  *)
(* in between.  How blocks fill and are flushed is in EventStream.tla, how *)
(* they travel in HttpEventSink.tla and Ingestion.tla.                     *)
(***************************************************************************)
EXTENDS Transit

CONSTANTS
    Threads, None,
    Kinds,         \* kinds of stream, of DOMAIN Queues
    Events,        \* per kind: the events that may be recorded, unstamped
    StartTicks,    \* ticks when the process started
    TicksPerNs,    \* frequency of the tick counter
    Queries,       \* [begin, end, limit], in ns since the process started
    MaxEvents,     \* bound: events
    MaxBlocks      \* bound: blocks

(* Every static string of the program. *)
Strings(events) ==
    UNION {ToSet(DescStrings(Descs[p])) : p \in DOMAIN Descs}
      \cup UNION {{e[m] : m \in {"target", "name"} \cap DOMAIN e} : e \in events}

(* Two static strings at one address are the same, and none is at the      *)
(* address of a descriptor: ids of dependencies are addresses.             *)
ASSUME QueriesAssumption ==
    /\ \A k \in Kinds : \A s1, s2 \in Strings(Events[k]) :
          /\ s1.ptr = s2.ptr => s1 = s2
          /\ s1.ptr \notin DOMAIN Descs
    /\ StartTicks \in Nat /\ TicksPerNs \in Nat \ {0}
    /\ MaxEvents \in Nat /\ MaxBlocks \in Nat

VARIABLES
    kind,        \* of the stream
    clock,       \* ticks
    stamped,     \* per thread: the event it is about to push, or None
    block,       \* the stream's block: begin, objects and object_offset
    lake,        \* blocks that were ingested
    blocks,      \* blocks sent so far
    written,     \* history: events in the order of the stream
    answer       \* of the query, or None

vars == <<kind, clock, stamped, block, lake, blocks, written, answer>>

Queue == Queues[kind]

(* make_stream_info *)
StreamInfos == [k \in Kinds |-> [objects_metadata      |-> FlattenMetadata(Queues[k].objects),
                                 dependencies_metadata |-> FlattenMetadata(Queues[k].dependencies)]]
StreamInfo == StreamInfos[kind]

NewBlock(begin, offset) == [begin |-> begin, objects |-> <<>>, object_offset |-> offset]

Init ==
    /\ kind \in Kinds
    /\ clock = StartTicks
    /\ stamped = [t \in Threads |-> None]
    /\ block = NewBlock(StartTicks, 0)
    /\ lake = <<>>
    /\ blocks = 0
    /\ written = <<>>
    /\ answer = None

-----------------------------------------------------------------------------
(***************************************************************************)
(* Recording                                                               *)
(***************************************************************************)

(* A thread stream is written and flushed by one thread. *)
Recorders == IF kind = "thread" THEN {CHOOSE t \in Threads : TRUE} ELSE Threads

Pending == {t \in Threads : stamped[t] # None}

Stamp(t, e) ==
    /\ answer = None
    /\ stamped[t] = None
    /\ Len(written) + 1 <= MaxEvents - (IF Pending = {} THEN 0 ELSE 1)
    /\ clock' = clock + 1
    /\ stamped' = [stamped EXCEPT ![t] =
                      [f \in DOMAIN e \cup {"time"} |-> IF f = "time" THEN clock' ELSE e[f]]]
    /\ UNCHANGED <<kind, block, lake, blocks, written, answer>>

PushEvent(t) ==
    /\ answer = None
    /\ stamped[t] # None
    /\ block' = [block EXCEPT !.objects = Push(Queue.objects, @, stamped[t])]
    /\ written' = Append(written, stamped[t])
    /\ stamped' = [stamped EXCEPT ![t] = None]
    /\ UNCHANGED <<kind, clock, lake, blocks, answer>>

RelativeTicks(ticks) == ticks - StartTicks

(* encode_block *)
EncodeBlock(b, end, nb) ==
    [begin_ticks   |-> RelativeTicks(b.begin),
     end_ticks     |-> RelativeTicks(end),
     payload       |-> [dependencies |-> Extract(Queue, b.objects), objects |-> b.objects],
     nb_objects    |-> nb,
     object_offset |-> b.object_offset]

(* The stream gets a new block, then the old one is closed and sent; it    *)
(* may be dropped or lost on its way.                                      *)
Flush ==
    /\ answer = None
    /\ blocks < MaxBlocks
    /\ Len(written) > block.object_offset
    /\ kind = "thread" => Pending = {}
    /\ clock' = clock + 2
    /\ block' = NewBlock(clock + 1, Len(written))
    /\ blocks' = blocks + 1
    /\ lake' \in {lake, Append(lake, EncodeBlock(block, clock', Len(written) - block.object_offset))}
    /\ UNCHANGED <<kind, stamped, written, answer>>

-----------------------------------------------------------------------------
(***************************************************************************)
(* Queries                                                                 *)
(***************************************************************************)

(* ConvertTicks, with its rounding to the nearest nanosecond. *)
ticks_to_nanoseconds(ticks) == (2 * (ticks - StartTicks) + TicksPerNs) \div (2 * TicksPerNs)
to_ticks(ns) == ns * TicksPerNs

(* Mutant: only blocks that begin in the range. *)
SelectedBegin(b, begin, end) == begin <= b.begin_ticks /\ b.begin_ticks <= end

Selected(b, begin, end) == b.begin_ticks <= end /\ b.end_ticks >= begin

(* The rows are ordered by begin_ticks, which is how blocks are cut. *)
find_stream_blocks_in_range(begin, end) ==
    SelectSeq(lake, LAMBDA b : Selected(b, begin, end))

(* A row, or Err if some value could not be read.  "skip" is no row. *)
Row(values) ==
    IF \E f \in DOMAIN values : values[f] = Err THEN <<"Err", 0>>
    ELSE <<"row", [f \in DOMAIN values |->
                      IF f = "time" THEN ticks_to_nanoseconds(values[f][2]) ELSE values[f][2]]>>

Skip == <<"skip", 0>>

(* log_entry_from_value *)
LogEntry(v, id) ==
    LET name == v[2].type_name
        desc == IF name \in {"LogStaticStrEvent", "LogStringEvent"} THEN Get(v, "desc", "Object") ELSE v
    IN  IF name \notin {"LogStaticStrEvent", "LogStringEvent", "LogStaticStrInteropEvent",
                        "LogStringInteropEventV2", "LogStringInteropEventV3"}
        THEN Skip
        ELSE Row([time   |-> Get(v, "time", "i64"),
                  level  |-> Get(desc, "level", "u32"),
                  target |-> Get(desc, "target", "String"),
                  msg    |-> IF name = "LogStaticStrEvent" THEN Get(desc, "fmt_str", "String")
                             ELSE Get(v, "msg", "String")])

(* measure_from_value *)
Measure(v, id) ==
    LET name == v[2].type_name
        desc == Get(v, "desc", "Object")
    IN  IF name \notin {"FloatMetricEvent", "IntegerMetricEvent"} THEN Skip
        ELSE Row([time   |-> Get(v, "time", "i64"),
                  value  |-> Get(v, "value", IF name = "FloatMetricEvent" THEN "f64" ELSE "u64"),
                  target |-> Get(desc, "target", "String"),
                  name   |-> Get(desc, "name", "String"),
                  unit   |-> Get(desc, "unit", "String")])

(* parse_thread_block_payload: spans of async code are of no known type. *)
ThreadEvent(v, id) ==
    LET type  == v[2].type_name
        named == type \in {"BeginThreadNamedSpanEvent", "EndThreadNamedSpanEvent"}
        scope == Get(v, IF named THEN "thread_span_location" ELSE "thread_span_desc", "Object")
    IN  IF type \notin {"BeginThreadSpanEvent", "EndThreadSpanEvent",
                        "BeginThreadNamedSpanEvent", "EndThreadNamedSpanEvent"}
        THEN Skip
        ELSE Row([id       |-> <<"i64", id>>,
                  time     |-> Get(v, "time", "i64"),
                  name     |-> Get(IF named THEN v ELSE scope, "name", "String"),
                  target   |-> Get(scope, "target", "String"),
                  filename |-> Get(scope, "file", "String"),
                  line     |-> Get(scope, "line", "u32"),
                  event_type |-> <<"str", IF type \in {"BeginThreadSpanEvent", "BeginThreadNamedSpanEvent"}
                                          THEN "begin" ELSE "end">>])

RowOf(v, id) == IF v = Err THEN Err
                ELSE CASE kind \in {"log", "unreal"} -> LogEntry(v, id)
                       [] kind = "metrics" -> Measure(v, id)
                       [] kind = "thread"  -> ThreadEvent(v, id)

(* The visitors of the queries: the rows they have after one more, and     *)
(* whether they go on.  Rows beyond the end stop them, rows before the     *)
(* range do not, but for log entries when there is no room left.           *)
LogVisit(q, rows, row) ==
    LET taken == q.begin <= row.time /\ row.time <= q.end /\ Len(rows) < q.limit
        new   == IF taken THEN Append(rows, row) ELSE rows
    IN  [rows |-> new, cont |-> row.time <= q.end /\ Len(new) < q.limit]

MetricsVisit(q, rows, row) ==
    IF row.time < q.begin THEN [rows |-> rows, cont |-> TRUE]
    ELSE IF row.time > q.end \/ Len(rows) >= q.limit THEN [rows |-> rows, cont |-> FALSE]
    ELSE [rows |-> Append(rows, row), cont |-> Len(rows) + 1 < q.limit]

ThreadVisit(q, rows, row) ==
    IF Len(rows) >= q.limit \/ row.time > q.end THEN [rows |-> rows, cont |-> FALSE]
    ELSE IF row.time < q.begin THEN [rows |-> rows, cont |-> TRUE]
    ELSE [rows |-> Append(rows, row), cont |-> Len(rows) + 1 < q.limit]

Visit(q, rows, row) ==
    CASE kind \in {"log", "unreal"} -> LogVisit(q, rows, row)
      [] kind = "metrics" -> MetricsVisit(q, rows, row)
      [] kind = "thread"  -> ThreadVisit(q, rows, row)

(* The closure that parse_block calls for each value. *)
OnValue(q, acc, value, id) ==
    LET row == RowOf(value, id) IN
    IF ~acc.cont \/ ~acc.ok \/ row = Skip THEN acc
    ELSE IF row = Err THEN [acc EXCEPT !.ok = FALSE]
    ELSE LET v == Visit(q, acc.rows, row[2])
         IN  [ok |-> TRUE, rows |-> v.rows, cont |-> v.cont]

(* parse_block, from what the blocks before have left. *)
ParseBlock(q, acc, b) ==
    LET deps    == ReadDependencies(StreamInfo.dependencies_metadata, b.payload.dependencies)
        objects == ParseObjectBuffer(deps.hash, StreamInfo.objects_metadata, b.payload.objects)
    IN  IF ~acc.ok THEN acc
        ELSE FoldLeft(LAMBDA a, i : OnValue(q, a, objects[i], b.object_offset + i - 1),
                      [acc EXCEPT !.ok = deps.ok, !.cont = TRUE],
                      [i \in DOMAIN objects |-> i])

NoRows == [ok |-> TRUE, rows |-> <<>>, cont |-> TRUE]

(* All the blocks, or those up to the one in which the visitor stopped. *)
EachBlock(q, found) == FoldLeft(LAMBDA acc, b : ParseBlock(q, acc, b), NoRows, found)
UntilStopped(q, found) ==
    FoldLeft(LAMBDA acc, b : IF acc.cont THEN ParseBlock(q, acc, b) ELSE acc, NoRows, found)

Answer(q, res) ==
    /\ answer = None
    /\ answer' = [query |-> q, ok |-> res.ok, rows |-> res.rows]
    /\ UNCHANGED <<kind, clock, stamped, block, lake, blocks, written>>

Found(q) == find_stream_blocks_in_range(to_ticks(q.begin), to_ticks(q.end))

QueryLogEntries(q) ==
    /\ kind \in {"log", "unreal"}
    /\ Answer(q, EachBlock(q, Found(q)))

QueryMetrics(q) ==
    /\ kind = "metrics"
    /\ Answer(q, UntilStopped(q, Found(q)))

(* The range ends at the last block. *)
QueryThreadEvents(q) ==
    LET last    == Last(Found(q)).end_ticks
        end     == IF to_ticks(q.end) < last THEN to_ticks(q.end) ELSE last
        clamped == IF Found(q) = <<>> THEN q
                   ELSE [q EXCEPT !.end = ticks_to_nanoseconds(end + StartTicks)]
    IN  /\ kind = "thread"
        /\ Answer(q, UntilStopped(clamped, Found(q)))

-----------------------------------------------------------------------------

Next ==
    \/ \E t \in Recorders, e \in Events[kind] : Stamp(t, e)
    \/ \E t \in Threads : PushEvent(t)
    \/ Flush
    \/ \E q \in Queries : QueryLogEntries(q) \/ QueryMetrics(q) \/ QueryThreadEvents(q)

Spec == Init /\ [][Next]_vars

-----------------------------------------------------------------------------
(***************************************************************************)
(* Properties                                                              *)
(***************************************************************************)

IsAsync(e) == e.type \in {"BeginAsyncSpanEvent", "EndAsyncSpanEvent",
                          "BeginAsyncNamedSpanEvent", "EndAsyncNamedSpanEvent"}

(* What the program meant by event i of the stream. *)
Meant(i) ==
    LET e == written[i]
        time == ticks_to_nanoseconds(e.time)
        Desc(ptr, m) == Content(Descs[ptr][m])
    IN  CASE "desc" \in DOMAIN e /\ kind = "metrics" ->
                [time |-> time, value |-> e.value, target |-> Desc(e.desc, "target"),
                 name |-> Desc(e.desc, "name"), unit |-> Desc(e.desc, "unit")]
          [] "desc" \in DOMAIN e /\ kind # "metrics" ->
                [time |-> time, level |-> Descs[e.desc].level, target |-> Desc(e.desc, "target"),
                 msg |-> IF "msg" \in DOMAIN e THEN e.msg ELSE Desc(e.desc, "fmt_str")]
          [] "level" \in DOMAIN e ->
                [time |-> time, level |-> e.level, target |-> Content(e.target),
                 msg |-> IF e.type = "LogStaticStrInteropEvent" THEN Content(e.msg) ELSE e.msg]
          [] kind = "thread" ->
                LET scope == IF "name" \in DOMAIN e THEN e.thread_span_location ELSE e.thread_span_desc
                IN  [id |-> i - 1, time |-> time, target |-> Desc(scope, "target"),
                     name |-> IF "name" \in DOMAIN e THEN Content(e.name) ELSE Desc(scope, "name"),
                     filename |-> Desc(scope, "file"), line |-> Descs[scope].line,
                     event_type |-> IF e.type \in {"BeginThreadSpanEvent", "BeginThreadNamedSpanEvent"}
                                    THEN "begin" ELSE "end"]

IdsOf(b) == b.object_offset + 1 .. b.object_offset + b.nb_objects

(* The events in the lake that make rows. *)
Arrived == {i \in UNION {IdsOf(lake[k]) : k \in DOMAIN lake} : ~IsAsync(written[i])}

(* The answer holds the rows of S, in the order of the stream. *)
Answers(S) ==
    LET ids == SetToSortSeq(S, <)
        q == answer.query
    IN  /\ answer.rows = [k \in DOMAIN ids |-> Meant(ids[k])]
        /\ \A i \in S : ticks_to_nanoseconds(written[i].time) \in q.begin .. q.end
        /\ Len(answer.rows) <= q.limit

(***************************************************************************)
(* A query succeeds, and its rows are events of the range that reached the *)
(* lake, in the order of the stream and no more than the limit, each with  *)
(* the level, strings and values the program gave it: every reference was  *)
(* resolved from the block's own dependencies, whatever blocks were lost.  *)
(***************************************************************************)
AnswerSound ==
    answer # None => answer.ok /\ \E S \in SUBSET Arrived : Answers(S)

(* An event may hide from a query: it was stamped before its block began,  *)
(* so that the block is not looked at, or an event beyond the range came   *)
(* before it and ended the block (log) or the query (metrics).             *)
Overtaken(i) ==
    \E k \in DOMAIN lake :
        /\ i \in IdsOf(lake[k])
        /\ \/ RelativeTicks(written[i].time) < lake[k].begin_ticks
           \/ \E j \in Arrived :
                 /\ j < i
                 /\ kind # "metrics" => j \in IdsOf(lake[k])
                 /\ ticks_to_nanoseconds(written[j].time) > answer.query.end

(***************************************************************************)
(* Within its limit a query leaves out no event of the range that reached  *)
(* the lake, but for events of shared streams that others overtook between *)
(* their stamp and their push.  Nothing overtakes an event of a thread.    *)
(***************************************************************************)
AnswerComplete ==
    answer # None /\ answer.ok =>
        \E S \in SUBSET Arrived :
            /\ Answers(S)
            /\ \A i \in Arrived \ S :
                  RelativeTicks(written[i].time)
                        \in to_ticks(answer.query.begin) .. to_ticks(answer.query.end)
                    => \/ kind # "thread" /\ Overtaken(i)
                       \/ Len(answer.rows) = answer.query.limit /\ \A j \in S : j < i
=============================================================================
