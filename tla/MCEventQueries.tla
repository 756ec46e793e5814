---------------------------- MODULE MCEventQueries ----------------------------
(***************************************************************************)
(* EventQueries for TLC.  Descriptors share strings, one string is empty   *)
(* and one is the end of another.                                          *)
(***************************************************************************)
EXTENDS EventQueries

MCBytes == <<1, 2, 3, 4, 5, 0, 6, 7, 8, 9, 1>>

Str(ptr, len)  == [ptr |-> ptr, len |-> len, codec |-> UTF8]
Ansi(ptr, len) == [ptr |-> ptr, len |-> len, codec |-> ANSI]
Wide(ptr, len) == [ptr |-> ptr, len |-> len, codec |-> WIDE]

MCDescs ==
    (21 :> [type |-> "LogMetadataRecord", fmt_str |-> Str(1, 2), target |-> Str(3, 1),
            module_path |-> Str(3, 1), file |-> Str(6, 0), line |-> 7, level |-> 4])
 @@ (22 :> [type |-> "LogMetadataRecord", fmt_str |-> Str(2, 1), target |-> Str(3, 1),
            module_path |-> Str(3, 1), file |-> Str(6, 0), line |-> 8, level |-> 2])
 @@ (23 :> [type |-> "MetricMetadataRecord", name |-> Str(1, 2), unit |-> Str(4, 2),
            target |-> Str(3, 1), module_path |-> Str(3, 1), file |-> Str(6, 0), line |-> 7, lod |-> 1])
 @@ (24 :> [type |-> "SpanRecord", name |-> Str(1, 2), target |-> Str(3, 1),
            module_path |-> Str(3, 1), file |-> Str(4, 2), line |-> 7, lod |-> 1])
 @@ (25 :> [type |-> "SpanLocationRecord", target |-> Str(3, 1), module_path |-> Str(3, 1),
            file |-> Str(4, 2), line |-> 9, lod |-> 1])
 @@ (26 :> [type |-> "LogMetadataDependency", target |-> Ansi(7, 1), fmt_str |-> Wide(8, 2),
            file |-> Ansi(10, 2), line |-> 7, level |-> 3])

MCEvents ==
    [log     |-> {[type |-> "LogStaticStrEvent", desc |-> 21],
                  [type |-> "LogStringEvent", desc |-> 22, msg |-> <<>>],
                  [type |-> "LogStaticStrInteropEvent", level |-> 3, target |-> Str(4, 2), msg |-> Str(1, 2)],
                  [type |-> "LogStringInteropEvent", level |-> 5, target |-> Str(3, 1), msg |-> <<9>>]},
     metrics |-> {[type |-> "IntegerMetricEvent", desc |-> 23, value |-> 5],
                  [type |-> "FloatMetricEvent", desc |-> 23, value |-> 6]},
     thread  |-> {[type |-> "BeginThreadSpanEvent", thread_span_desc |-> 24],
                  [type |-> "EndThreadNamedSpanEvent", thread_span_location |-> 25, name |-> Str(1, 2)],
                  [type |-> "BeginAsyncNamedSpanEvent", span_location |-> 25, name |-> Str(2, 1), span_id |-> 1]},
     unreal  |-> {[type |-> "UnrealLogStaticStrEvent", desc |-> 26],
                  [type |-> "UnrealLogStringInteropEvent", level |-> 4, target |-> Ansi(7, 1), msg |-> <<9, 8>>]}]

MCQueries == {[begin |-> q[1], end |-> q[2], limit |-> q[3]] :
                 q \in {<<0, 2, 5>>, <<0, 2, 1>>, <<1, 4, 5>>, <<1, 4, 0>>}}

MCThreads == {1, 2}
=============================================================================
