----------------------------- MODULE QuerySpans -----------------------------
(***************************************************************************)
(* query_spans (rust/analytics/src/query_spans.rs) over the blocks that a  *)
(* traced thread left in the data lake.                                    *)
(*                                                                         *)
(* The first part records: spans begin and end in LIFO order (they are     *)
(* guards), blocks are cut between events, and some never arrive.  The     *)
(* second part is one query: it selects the blocks that touch the range,   *)
(* gathers runs of blocks that follow each other by their tick counts, and *)
(* builds a call tree (CallTree.tla) for each run.                         *)
(*                                                                         *)
(* The process starts at tick 0, so that ticks relative to its start and   *)
(* absolute ticks are the same.                                            *)
(***************************************************************************)
EXTENDS CallTree, FiniteSets

CONSTANTS
    Scopes,       \* hashes of the scopes
    None,
    Lags,         \* ticks from the begin of a new block to the end of the
                  \* old one: 0 in Unreal's dispatch, which reads the clock
                  \* once, and more in Rust's, which reads it twice
    TicksPerNs,   \* frequency of the tick counter
    Limits,       \* limits a query may have
    MaxEvents     \* bound: events recorded

ASSUME QueryAssumption ==
    /\ RootHash \notin Scopes /\ None \notin Nat
    /\ Lags \subseteq Nat /\ TicksPerNs \in Nat \ {0}
    /\ Limits \subseteq Nat \ {0}
    /\ MaxEvents \in Nat

VARIABLES
    clock,        \* ticks
    open,         \* the thread's open spans, outermost first
    trace,        \* all its events; an event's id is its index less one
    current,      \* its current block
    lake,         \* the blocks that were ingested
    query,        \* begin and end in ticks, and limit
    qpc,          \* "idle", "group", "parse", "done"
    todo,         \* blocks not yet looked at
    blocks_to_process,
    last_end,
    pending,      \* per block of the tree being built: ids left to parse
    rows,         \* the SpanRecordBuilder
    used          \* history: blocks that went into some tree

recorder == <<clock, open, trace, current, lake>>
request  == <<query, todo, blocks_to_process, last_end>>
result   == <<rows, used>>
vars     == <<recorder, request, qpc, pending, result, builder>>

NewBlock(begin, offset) == [begin |-> begin, object_offset |-> offset]

(* Spans may be open on a thread before it gets its stream. *)
Init ==
    /\ clock = 0
    /\ open \in {<<>>} \cup {<<h>> : h \in Scopes}
    /\ trace = <<>>
    /\ current = NewBlock(0, 0)
    /\ lake = <<>>
    /\ query = None
    /\ qpc = "idle"
    /\ todo = <<>>
    /\ blocks_to_process = <<>>
    /\ last_end = None
    /\ pending = <<>>
    /\ rows = <<>>
    /\ used = {}
    /\ range = [begin |-> 0, end |-> 0, limit |-> 0]
    /\ nb_spans = 0
    /\ stack = <<>>
    /\ cont = TRUE
    /\ mismatch = FALSE

-----------------------------------------------------------------------------
(***************************************************************************)
(* Recording.                                                              *)
(***************************************************************************)

Record(kind, hash) ==
    /\ qpc = "idle"
    /\ Len(trace) < MaxEvents
    /\ clock' = clock + 1
    /\ trace' = Append(trace, [kind |-> kind, hash |-> hash, time |-> clock'])
    /\ UNCHANGED <<current, lake, request, qpc, pending, result, builder>>

BeginSpan(h) == Record("begin", h) /\ open' = Append(open, h)

EndSpan == open # <<>> /\ Record("end", Last(open)) /\ open' = Front(open)

(* The block goes to the sink, which may drop it or fail to deliver it. *)
CutBlock(lag) ==
    /\ qpc = "idle"
    /\ current.object_offset < Len(trace)
    /\ clock' = clock + 1 + lag
    /\ current' = NewBlock(clock + 1, Len(trace))
    /\ \/ lake' = Append(lake, [begin_ticks |-> current.begin, end_ticks |-> clock',
                                object_offset |-> current.object_offset,
                                nb_objects |-> Len(trace) - current.object_offset])
       \/ UNCHANGED lake
    /\ UNCHANGED <<open, trace, request, qpc, pending, result, builder>>

-----------------------------------------------------------------------------
(***************************************************************************)
(* One query.                                                              *)
(***************************************************************************)

(* ConvertTicks, with its rounding to the nearest nanosecond. *)
ticks_to_nanoseconds(t) == (2 * t + TicksPerNs) \div (2 * TicksPerNs)
to_ticks(ns)            == ns * TicksPerNs

Selected(b, begin, end) == b.begin_ticks <= end /\ b.end_ticks >= begin

(* The blocks of the stream by their begin, which is how they were cut.    *)
find_stream_blocks_in_range(begin, end) ==
    LET First[n \in 0 .. Len(lake)] ==
            IF n = 0 THEN <<>>
            ELSE IF Selected(lake[n], begin, end) THEN Append(First[n - 1], lake[n])
            ELSE First[n - 1]
    IN  First[Len(lake)]

StartQuery(begin, end, limit) ==
    /\ qpc = "idle"
    /\ lake # <<>>
    /\ query' = [begin |-> to_ticks(begin), end |-> to_ticks(end), limit |-> limit]
    /\ todo' = find_stream_blocks_in_range(to_ticks(begin), to_ticks(end))
    /\ qpc' = "group"
    /\ UNCHANGED <<recorder, blocks_to_process, last_end, pending, result, builder>>

(* Mutant: a block is expected to start after the end of the one before. *)
ContiguousNext(b) == last_end \in {None, b.begin_ticks - 1}

Contiguous(b) == last_end \in {None, b.begin_ticks}

GroupBlock ==
    /\ qpc = "group"
    /\ todo # <<>>
    /\ Contiguous(Head(todo))
    /\ last_end' = Head(todo).end_ticks
    /\ blocks_to_process' = Append(blocks_to_process, Head(todo))
    /\ todo' = Tail(todo)
    /\ UNCHANGED <<recorder, query, qpc, pending, result, builder>>

EventIds(b) == [i \in 1 .. b.nb_objects |-> b.object_offset + i - 1]

Larger(a, b)  == IF a > b THEN a ELSE b
Smaller(a, b) == IF a < b THEN a ELSE b

(* The query's own append_call_tree: a builder for the run of blocks. *)
StartCallTree ==
    /\ qpc' = "parse"
    /\ NewBuilder(
          ticks_to_nanoseconds(Larger(query.begin, blocks_to_process[1].begin_ticks)),
          ticks_to_nanoseconds(Smaller(query.end, Last(blocks_to_process).end_ticks)),
          query.limit - Len(rows))
    /\ pending' = [i \in DOMAIN blocks_to_process |-> EventIds(blocks_to_process[i])]
    /\ used' = used \cup ToSet(blocks_to_process)
    /\ UNCHANGED <<recorder, query, rows>>

(* The block that does not follow is taken off the list as well. *)
GapBlock ==
    /\ qpc = "group"
    /\ todo # <<>>
    /\ ~Contiguous(Head(todo))
    /\ StartCallTree
    /\ todo' = Tail(todo)
    /\ last_end' = None
    /\ UNCHANGED blocks_to_process

LastRun ==
    /\ qpc = "group"
    /\ todo = <<>>
    /\ blocks_to_process # <<>>
    /\ StartCallTree
    /\ last_end' = None
    /\ UNCHANGED <<todo, blocks_to_process>>

NoRunLeft ==
    /\ qpc = "group"
    /\ todo = <<>>
    /\ blocks_to_process = <<>>
    /\ qpc' = "done"
    /\ UNCHANGED <<recorder, request, pending, result, builder>>

(* parse_thread_block_payload on one event.  A handler that says stop ends *)
(* the block; make_call_tree then goes on with the next one.               *)
ParseEvent ==
    /\ qpc = "parse"
    /\ pending # <<>>
    /\ pending[1] # <<>>
    /\ LET id == pending[1][1]
           e  == trace[id + 1]
           t  == ticks_to_nanoseconds(e.time) IN
       \/ e.kind = "begin" /\ on_begin_thread_scope(id, e.hash, t)
       \/ e.kind = "end" /\ on_end_thread_scope(id, e.hash, t)
    /\ pending' = IF cont' THEN [pending EXCEPT ![1] = Tail(@)] ELSE Tail(pending)
    /\ qpc' = IF mismatch' THEN "done" ELSE "parse"
    /\ UNCHANGED <<recorder, request, result>>

NextBlock ==
    /\ qpc = "parse"
    /\ pending # <<>>
    /\ pending[1] = <<>>
    /\ pending' = Tail(pending)
    /\ UNCHANGED <<recorder, request, qpc, result, builder>>

SpaceLeft(n) == n < query.limit

FinishCallTree ==
    /\ qpc = "parse"
    /\ pending = <<>>
    /\ rows' = append_call_tree(rows)
    /\ qpc' = IF SpaceLeft(Len(rows')) THEN "group" ELSE "done"
    /\ blocks_to_process' = <<>>
    /\ UNCHANGED <<recorder, query, todo, last_end, pending, used, builder>>

-----------------------------------------------------------------------------

(* Any range in nanoseconds, from the process's start to the last block. *)
Times == 0 .. ticks_to_nanoseconds(clock)

Next ==
    \/ \E h \in Scopes : BeginSpan(h)
    \/ EndSpan
    \/ \E lag \in Lags : CutBlock(lag)
    \/ \E begin, end \in Times, limit \in Limits :
          begin <= end /\ StartQuery(begin, end, limit)
    \/ GroupBlock
    \/ GapBlock
    \/ LastRun
    \/ NoRunLeft
    \/ ParseEvent
    \/ NextBlock
    \/ FinishCallTree

Spec == Init /\ [][Next]_vars

-----------------------------------------------------------------------------
(***************************************************************************)
(* Properties                                                              *)
(***************************************************************************)

Kind(k) == trace[k].kind
Time(k) == ticks_to_nanoseconds(trace[k].time)

Balance(i, j) ==
    Cardinality({k \in i .. j : Kind(k) = "begin"})
      - Cardinality({k \in i .. j : Kind(k) = "end"})

(* The event j ends the span that i begins. *)
Ends(i, j) ==
    /\ i < j /\ Kind(i) = "begin" /\ Kind(j) = "end"
    /\ Balance(i, j) = 0
    /\ \A k \in i .. j - 1 : Balance(i, k) > 0

(* The events of the blocks of this tree that lie in its range. *)
Covered ==
    LET bs == blocks_to_process IN
    {k \in bs[1].object_offset + 1 .. Last(bs).object_offset + Last(bs).nb_objects :
        InRange(Time(k))}

Span(k, begin, end) ==
    [id |-> k - 1, hash |-> trace[k].hash, begin |-> begin, end |-> end]

(* What the tree should hold: a span for every begin, up to its end or the *)
(* end of the range, and one for every end whose begin came too early.     *)
ExpectedSpans ==
    LET EndOf(i) == {j \in Covered : Ends(i, j)} IN
    {Span(i, Time(i), IF EndOf(i) = {} THEN range.end
                      ELSE Time(CHOOSE j \in EndOf(i) : TRUE)) :
        i \in {k \in Covered : Kind(k) = "begin"}}
    \cup
    {Span(j, range.begin, Time(j)) :
        j \in {k \in Covered : Kind(k) = "end" /\ ~\E i \in Covered : Ends(i, k)}}

TreeDone == qpc = "parse" /\ pending = <<>>

TreeSpans ==
    {[id |-> r.id, hash |-> r.hash, begin |-> r.begin, end |-> r.end] :
        r \in {x \in ToSet(append_call_tree(<<>>)) : x.id # -1}}

(***************************************************************************)
(* A tree that is not cut short by the limit holds exactly the spans that  *)
(* begin or end in its range, whatever the blocks, the range, the rounding *)
(* of times and the spans that were open before.                           *)
(***************************************************************************)
TreeMatchesTrace ==
    TreeDone /\ nb_spans < range.limit => TreeSpans = ExpectedSpans

(* In rows with parents first, j is below i. *)
Below(tree, i, j) == i < j /\ \A k \in i + 1 .. j : tree[i].depth < tree[k].depth

(***************************************************************************)
(* Spans lie within all they are called by, and begin after the spans that *)
(* came before have ended, also in trees that the limit cuts short.        *)
(***************************************************************************)
SpansNested ==
    LET tree == append_call_tree(<<>>) IN
    TreeDone => \A i, j \in DOMAIN tree :
        i < j => IF Below(tree, i, j)
                 THEN tree[i].begin <= tree[j].begin /\ tree[j].end <= tree[i].end
                 ELSE tree[i].end <= tree[j].begin

(***************************************************************************)
(* A query whose limit is not reached succeeds, never failing with "top    *)
(* scope mismatch parsing thread block" however its range cuts the spans   *)
(* and whatever blocks are missing; and it leaves out a block that touches *)
(* the range only if it does not begin where the one before it ended.      *)
(***************************************************************************)
OnlyAfterGaps ==
    LET sel == find_stream_blocks_in_range(query.begin, query.end) IN
    /\ mismatch => LimitReached
    /\ qpc = "done" /\ Len(rows) < query.limit /\ ~mismatch
         => \A i \in DOMAIN sel :
               \/ sel[i] \in used
               \/ i > 1 /\ sel[i - 1].end_ticks # sel[i].begin_ticks

(***************************************************************************)
(* thread_block_processor.rs says of the handlers' result "return true to  *)
(* continue": after a FALSE no later event reaches a handler of the tree,  *)
(* so that a limit does not make the query fail either.                    *)
(***************************************************************************)
StopIsHonoured == ~mismatch
=============================================================================
