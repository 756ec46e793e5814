------------------------------- MODULE Transit -------------------------------
(***************************************************************************)
(* The transit format (rust/transit): how a queue of events becomes a      *)
(* buffer of objects and one of dependencies, and how the analytics read   *)
(* both with nothing but the type descriptions sent with the stream.       *)
(*                                                                         *)
(* A buffer is a sequence of cells.  A cell holds one number: a primitive  *)
(* of any width, a pointer, or a byte of a string.  Sizes and offsets      *)
(* count cells, and offsets start from 0 as in the code.                   *)
(*                                                                         *)
(* An object of the program is a record with its type and its members.     *)
(* References are addresses: Descs gives what is at the address of a       *)
(* static descriptor, Bytes the bytes of static strings.  A static string  *)
(* is [ptr, len, codec].                                                   *)
(*                                                                         *)
(* The streams of Unreal processes are read by the same code; their log    *)
(* queue stands for them here (types of its own are called Unreal...).     *)
(***************************************************************************)
EXTENDS Integers, SequencesExt, TLC

CONSTANTS
    Bytes,      \* static memory: byte by address
    Descs       \* static descriptors by address

ANSI == 0
WIDE == 1
UTF8 == 2

Content(str) == [i \in 1 .. str.len |-> Bytes[str.ptr + i - 1]]

-----------------------------------------------------------------------------
(***************************************************************************)
(* Types                                                                   *)
(***************************************************************************)

ThreadSpan      == <<<<"thread_span_desc", "&">>, <<"time", "i64">>>>
ThreadNamedSpan == <<<<"thread_span_location", "&">>, <<"name", "StringId">>, <<"time", "i64">>>>
AsyncSpan       == <<<<"span_desc", "&">>, <<"span_id", "u64">>, <<"time", "i64">>>>
AsyncNamedSpan  == <<<<"span_location", "&">>, <<"name", "StringId">>, <<"span_id", "u64">>,
                     <<"time", "i64">>>>
Location        == <<<<"target", "&">>, <<"module_path", "&">>, <<"file", "&">>, <<"line", "u32">>>>

(* Types that are copied as they are: their members in order, "&" being a  *)
(* reference or a pointer.                                                 *)
LogStructs ==
    [LogStaticStrEvent   |-> <<<<"desc", "&">>, <<"time", "i64">>>>,
     LogStaticStrInteropEvent |-> <<<<"time", "i64">>, <<"level", "u32">>,
                                    <<"target", "StringId">>, <<"msg", "StringId">>>>,
     LogMetadataRecord   |-> <<<<"id", "u64">>, <<"fmt_str", "&">>>> \o Location
                             \o <<<<"level", "u32">>>>]

MetricStructs ==
    [IntegerMetricEvent  |-> <<<<"desc", "&">>, <<"value", "u64">>, <<"time", "i64">>>>,
     FloatMetricEvent    |-> <<<<"desc", "&">>, <<"value", "f64">>, <<"time", "i64">>>>,
     MetricMetadataRecord |-> <<<<"id", "u64">>, <<"name", "&">>, <<"unit", "&">>>> \o Location
                              \o <<<<"lod", "u32">>>>]

SpanStructs ==
    [BeginThreadSpanEvent |-> ThreadSpan,           EndThreadSpanEvent |-> ThreadSpan,
     BeginThreadNamedSpanEvent |-> ThreadNamedSpan, EndThreadNamedSpanEvent |-> ThreadNamedSpan,
     BeginAsyncSpanEvent |-> AsyncSpan,             EndAsyncSpanEvent |-> AsyncSpan,
     BeginAsyncNamedSpanEvent |-> AsyncNamedSpan,   EndAsyncNamedSpanEvent |-> AsyncNamedSpan,
     SpanRecord          |-> <<<<"id", "u64">>, <<"name", "&">>>> \o Location \o <<<<"lod", "u32">>>>,
     SpanLocationRecord  |-> <<<<"id", "u64">>>> \o Location \o <<<<"lod", "u32">>>>]

UnrealStructs ==
    [UnrealLogStaticStrEvent |-> <<<<"desc", "&">>, <<"time", "u64">>>>,
     LogMetadataDependency |-> <<<<"id", "u64">>, <<"target", "&">>, <<"fmt_str", "&">>,
                                 <<"file", "&">>, <<"line", "u32">>, <<"level", "u8">>>>]

Structs == LogStructs @@ MetricStructs @@ SpanStructs @@ UnrealStructs

(* declare_queue_struct!: the types each queue holds. *)
LogQueues ==
    [objects      |-> <<"LogStaticStrEvent", "LogStringEvent",
                        "LogStaticStrInteropEvent", "LogStringInteropEvent">>,
     dependencies |-> <<"StaticString", "LogMetadataRecord">>]

MetricsQueues ==
    [objects      |-> <<"IntegerMetricEvent", "FloatMetricEvent">>,
     dependencies |-> <<"StaticString", "MetricMetadataRecord">>]

ThreadQueues ==
    [objects      |-> <<"BeginThreadSpanEvent", "EndThreadSpanEvent",
                        "BeginThreadNamedSpanEvent", "EndThreadNamedSpanEvent",
                        "BeginAsyncSpanEvent", "EndAsyncSpanEvent",
                        "BeginAsyncNamedSpanEvent", "EndAsyncNamedSpanEvent">>,
     dependencies |-> <<"SpanRecord", "SpanLocationRecord", "StaticString">>]

UnrealLogQueues ==
    [objects      |-> <<"UnrealLogStaticStrEvent", "UnrealLogStringInteropEvent", "StaticStringRef">>,
     dependencies |-> <<"StaticStringDependency", "LogMetadataDependency">>]

Queues == [log |-> LogQueues, metrics |-> MetricsQueues, thread |-> ThreadQueues,
           unreal |-> UnrealLogQueues]

Dynamic == {"StaticString", "StaticStringDependency", "LogStringEvent",
            "LogStringInteropEvent", "UnrealLogStringInteropEvent"}

SizeOf(type) == CASE type = "StringId" -> 2 [] type = "StaticStringRef" -> 3 [] OTHER -> 1

(* Size of the first n members. *)
Extent(struct, n) ==
    FoldLeft(LAMBDA size, m : size + SizeOf(m[2]), 0, SubSeq(struct, 1, n))

ReflectedName(type) ==
    CASE type = "LogStringInteropEvent"       -> "LogStringInteropEventV2"
      [] type = "UnrealLogStringInteropEvent" -> "LogStringInteropEventV3"
      [] type = "UnrealLogStaticStrEvent"     -> "LogStaticStrEvent"
      [] OTHER -> type

(* A reference object: its id is the key of a dependency. *)
ReferenceUdt(type) ==
    [name |-> type, size |-> SizeOf(type),
     members |-> <<[name |-> "id", type_name |-> "usize", is_reference |-> TRUE, offset |-> 0]>>]

(* Reflect: size 0 says that every object brings its size. *)
Reflect(type) ==
    IF type = "StaticStringRef" THEN ReferenceUdt(type)
    ELSE IF type \in Dynamic THEN [name |-> ReflectedName(type), size |-> 0, members |-> <<>>]
    ELSE LET s == Structs[type] IN
         [name |-> ReflectedName(type), size |-> Extent(s, Len(s)),
          members |-> [i \in DOMAIN s |-> [name |-> s[i][1], type_name |-> s[i][2],
                                          is_reference |-> s[i][2] = "&",
                                          offset |-> Extent(s, i - 1)]]]

(* The types that the members of others have. *)
SecondaryUdts(types) ==
    IF \E type \in ToSet(types) \cap DOMAIN Structs :
          \E i \in DOMAIN Structs[type] : Structs[type][i][2] = "StringId"
    THEN <<ReferenceUdt("StringId")>> ELSE <<>>

(* Mutant: types that others depend on come first. *)
SecondaryFirst(types) == SecondaryUdts(types) \o [i \in DOMAIN types |-> Reflect(types[i])]

(* flatten_metadata: the queue's own types keep their index. *)
FlattenMetadata(types) == [i \in DOMAIN types |-> Reflect(types[i])] \o SecondaryUdts(types)

-----------------------------------------------------------------------------
(***************************************************************************)
(* Writing                                                                 *)
(***************************************************************************)

RefCells(type, str) ==
    IF type = "StringId" THEN <<str.ptr, str.len>>
    ELSE <<str.ptr, str.len * (IF str.codec = WIDE THEN 2 ELSE 1), str.codec>>

(* Unreal's strings: codec, size in bytes, bytes; two bytes for a wide     *)
(* character.                                                              *)
EncodedString(codec, text) ==
    LET bytes == IF codec = WIDE
                 THEN FlattenSeq([i \in DOMAIN text |-> <<text[i], 0>>]) ELSE text
    IN  <<codec, Len(bytes)>> \o bytes

(* DynString *)
DynCells(text) == text

(* write_any of a whole struct *)
PodCells(o) ==
    LET s == Structs[o.type]
        Cells(m) == IF m[2] = "StringId" THEN RefCells(m[2], o[m[1]]) ELSE <<o[m[1]]>>
    IN  FlattenSeq([i \in DOMAIN s |-> Cells(s[i])])

StaticStringCells(str) == <<str.ptr>> \o Content(str)

WriteValue(o) ==
    CASE o.type = "StaticString" -> StaticStringCells(o.str)
      [] o.type = "StaticStringDependency" ->
            <<o.str.ptr>> \o EncodedString(o.str.codec, Content(o.str))
      [] o.type = "LogStringEvent" -> <<o.desc, o.time>> \o DynCells(o.msg)
      [] o.type = "LogStringInteropEvent" ->
            <<o.time, o.level>> \o RefCells("StringId", o.target) \o DynCells(o.msg)
      [] o.type = "UnrealLogStringInteropEvent" ->
            <<o.time, o.level>> \o RefCells("StaticStringRef", o.target) \o EncodedString(WIDE, o.msg)
      [] OTHER -> PodCells(o)

GetValueSize(o) ==
    CASE o.type = "StaticString" -> 1 + o.str.len
      [] o.type = "StaticStringDependency" ->
            1 + 2 + o.str.len * (IF o.str.codec = WIDE THEN 2 ELSE 1)
      [] o.type = "LogStringEvent" -> 2 + Len(o.msg)
      [] o.type = "LogStringInteropEvent" -> 2 + SizeOf("StringId") + Len(o.msg)
      [] o.type = "UnrealLogStringInteropEvent" ->
            2 + SizeOf("StaticStringRef") + 2 + 2 * Len(o.msg)

TypeIndex(types, type) == (CHOOSE i \in DOMAIN types : types[i] = type) - 1

(* HeterogeneousQueue::push *)
Push(types, buffer, o) ==
    buffer \o <<TypeIndex(types, o.type)>>
           \o (IF o.type \in Dynamic THEN <<GetValueSize(o)>> ELSE <<>>)
           \o WriteValue(o)

-----------------------------------------------------------------------------
(***************************************************************************)
(* Framing: the loop that the queue's iterator, read_dependencies and      *)
(* parse_object_buffer share.                                              *)
(***************************************************************************)

At(buffer, offset) == buffer[offset + 1]

Slice(buffer, from, to) == SubSeq(buffer, from + 1, to)

(* An unknown type index, or an object that does not end in the buffer. *)
Bail == [index |-> -1, at |-> 0, size |-> 0]

Frames(udts, buffer) ==
    LET Dyn(o)   == udts[At(buffer, o) + 1].size = 0
        Start(o) == IF Dyn(o) THEN o + 2 ELSE o + 1
        Size(o)  == IF Dyn(o) THEN At(buffer, o + 1) ELSE udts[At(buffer, o) + 1].size
        From[o \in 0 .. Len(buffer)] ==
            IF o >= Len(buffer) THEN <<>>
            ELSE IF \/ At(buffer, o) \notin 0 .. Len(udts) - 1
                    \/ Dyn(o) /\ o + 1 >= Len(buffer)
                 THEN <<Bail>>
            ELSE IF Start(o) + Size(o) > Len(buffer) THEN <<Bail>>
            ELSE <<[index |-> At(buffer, o), at |-> Start(o), size |-> Size(o)]>>
                   \o From[Start(o) + Size(o)]
    IN  From[0]

-----------------------------------------------------------------------------
(***************************************************************************)
(* ExtractDeps: the dependencies of the objects in a queue, each one once  *)
(* and after those it refers to itself.                                    *)
(***************************************************************************)

ReadRef(type, buffer, offset) ==
    IF type = "StringId"
    THEN [ptr |-> At(buffer, offset), len |-> At(buffer, offset + 1), codec |-> UTF8]
    ELSE LET codec == At(buffer, offset + 2)
         IN  [ptr |-> At(buffer, offset), codec |-> codec,
              len |-> At(buffer, offset + 1) \div (IF codec = WIDE THEN 2 ELSE 1)]

(* What the object at an offset refers to: descriptors and strings, in the *)
(* order in which they are recorded.                                       *)
DescAt(buffer, offset)      == <<"desc", At(buffer, offset)>>
StrAt(type, buffer, offset) == <<"str", ReadRef(type, buffer, offset)>>

LogRefs(type, buffer, at) ==
    CASE type \in {"LogStaticStrEvent", "LogStringEvent"} -> <<DescAt(buffer, at)>>
      [] type = "LogStaticStrInteropEvent" ->
            <<StrAt("StringId", buffer, at + 2), StrAt("StringId", buffer, at + 4)>>
      [] type = "LogStringInteropEvent" -> <<StrAt("StringId", buffer, at + 2)>>

MetricsRefs(type, buffer, at) == <<DescAt(buffer, at)>>

ThreadRefs(type, buffer, at) ==
    IF <<"name", "StringId">> \in ToSet(Structs[type])
    THEN <<DescAt(buffer, at), StrAt("StringId", buffer, at + 1)>>
    ELSE <<DescAt(buffer, at)>>

UnrealLogRefs(type, buffer, at) ==
    CASE type = "UnrealLogStaticStrEvent" -> <<DescAt(buffer, at)>>
      [] type = "UnrealLogStringInteropEvent" -> <<StrAt("StaticStringRef", buffer, at + 2)>>

Refs(type, buffer, at) ==
    CASE type \in ToSet(LogQueues.objects)     -> LogRefs(type, buffer, at)
      [] type \in ToSet(MetricsQueues.objects) -> MetricsRefs(type, buffer, at)
      [] type \in ToSet(ThreadQueues.objects)  -> ThreadRefs(type, buffer, at)
      [] OTHER                                 -> UnrealLogRefs(type, buffer, at)

StringType(types) ==
    IF "StaticString" \in ToSet(types) THEN "StaticString" ELSE "StaticStringDependency"

(* recorded_deps.insert(ptr), then push if it was not there. *)
RecordString(types, deps, str) ==
    IF str.ptr \in deps.recorded THEN deps
    ELSE [recorded |-> deps.recorded \cup {str.ptr},
          buffer   |-> Push(types, deps.buffer, [type |-> StringType(types), str |-> str])]

(* The static strings of a descriptor, in the order of the record_..._     *)
(* dependencies functions, and its serialized form.                        *)
LocationStrings == <<"target", "module_path", "file">>
LogStrings      == <<"fmt_str">> \o LocationStrings
MetricStrings   == <<"name", "unit">> \o LocationStrings
SpanStrings     == <<"name">> \o LocationStrings
UnrealStrings   == <<"target", "fmt_str", "file">>

DescStrings(d) ==
    LET members == CASE d.type = "LogMetadataRecord"     -> LogStrings
                     [] d.type = "MetricMetadataRecord"  -> MetricStrings
                     [] d.type = "SpanRecord"            -> SpanStrings
                     [] d.type = "SpanLocationRecord"    -> LocationStrings
                     [] d.type = "LogMetadataDependency" -> UnrealStrings
    IN  [i \in DOMAIN members |-> d[members[i]]]

DescRecord(ptr) ==
    LET d == Descs[ptr]
        s == Structs[d.type]
    IN  [m \in {s[i][1] : i \in DOMAIN s} \cup {"type"} |->
            IF m = "id" THEN ptr
            ELSE IF m # "type" /\ <<m, "&">> \in ToSet(s) THEN d[m].ptr
            ELSE d[m]]

(* Mutant: a descriptor goes before its strings. *)
RecordDescFirst(types, deps, ptr) ==
    IF ptr \in deps.recorded THEN deps
    ELSE LET first == [recorded |-> deps.recorded \cup {ptr},
                       buffer   |-> Push(types, deps.buffer, DescRecord(ptr))]
         IN  FoldLeft(LAMBDA d, str : RecordString(types, d, str), first, DescStrings(Descs[ptr]))

(* record_..._dependencies *)
RecordDesc(types, deps, ptr) ==
    IF ptr \in deps.recorded THEN deps
    ELSE LET strings == FoldLeft(LAMBDA d, str : RecordString(types, d, str),
                                 [deps EXCEPT !.recorded = @ \cup {ptr}],
                                 DescStrings(Descs[ptr]))
         IN  [strings EXCEPT !.buffer = Push(types, @, DescRecord(ptr))]

Extract(queue, objects) ==
    LET types == queue.dependencies
        own   == [i \in DOMAIN queue.objects |-> Reflect(queue.objects[i])]
        frames == Frames(own, objects)
        refs  == FlattenSeq([i \in DOMAIN frames |->
                    Refs(queue.objects[frames[i].index + 1], objects, frames[i].at)])
        Record(deps, ref) == IF ref[1] = "desc" THEN RecordDesc(types, deps, ref[2])
                             ELSE RecordString(types, deps, ref[2])
    IN  FoldLeft(Record, [recorded |-> {}, buffer |-> <<>>], refs).buffer

-----------------------------------------------------------------------------
(***************************************************************************)
(* Parsing.  A Value is a pair of a tag and what it holds.                 *)
(***************************************************************************)

NoValue == <<"None", 0>>
Err     == <<"Err", 0>>

Lookup(deps, id) == IF id \in DOMAIN deps THEN deps[id] ELSE NoValue

HasUdt(udts, name) == \E i \in DOMAIN udts : udts[i].name = name

UdtNamed(udts, name) == udts[CHOOSE i \in DOMAIN udts : udts[i].name = name]

Intrinsic == {"u8", "u32", "u64", "i64", "f64"}

(* parse_pod_instance.  A member of another type is one of the reference   *)
(* objects, StringId or StaticStringRef, whose value is that of their id.  *)
ParsePod(udt, udts, deps, at, buffer) ==
    LET Named(name) == udt.members[CHOOSE i \in DOMAIN udt.members : udt.members[i].name = name]
        MemberValue(m) ==
            IF m.is_reference THEN Lookup(deps, At(buffer, at + m.offset))
            ELSE IF m.type_name \in Intrinsic THEN <<m.type_name, At(buffer, at + m.offset)>>
            ELSE IF HasUdt(udts, m.type_name) THEN Lookup(deps, At(buffer, at + m.offset))
            ELSE NoValue
    IN  <<"Object", [type_name |-> udt.name,
                     members |-> [n \in {udt.members[i].name : i \in DOMAIN udt.members} |->
                                     MemberValue(Named(n))]]>>

(* parse_string *)
ParseString(buffer, offset) ==
    LET codec == At(buffer, offset)
        bytes == Slice(buffer, offset + 2, offset + 2 + At(buffer, offset + 1))
    IN  CASE codec \in {ANSI, UTF8} -> <<"String", bytes>>
          [] codec = WIDE /\ Len(bytes) % 2 = 0 ->
                <<"String", [i \in 1 .. Len(bytes) \div 2 |-> bytes[2 * i - 1]]>>
          [] OTHER -> Err

LogStringMembers(deps, f, buffer) ==
    [time |-> <<"i64", At(buffer, f.at + 1)>>,
     msg  |-> <<"String", Slice(buffer, f.at + 2, f.at + f.size)>>,
     desc |-> Lookup(deps, At(buffer, f.at))]

InteropMembers(udts, deps, f, buffer) ==
    IF HasUdt(udts, "StringId")
    THEN LET msg_offset == f.at + 2 + UdtNamed(udts, "StringId").size IN
         [time   |-> <<"i64", At(buffer, f.at)>>,
          level  |-> <<"u32", At(buffer, f.at + 1)>>,
          target |-> Lookup(deps, At(buffer, f.at + 2)),
          msg    |-> <<"String", Slice(buffer, msg_offset, f.at + f.size)>>]
    ELSE <<>>

InteropV3Members(udts, deps, f, buffer) ==
    IF HasUdt(udts, "StaticStringRef")
    THEN LET msg == ParseString(buffer, f.at + 2 + UdtNamed(udts, "StaticStringRef").size) IN
         IF msg = Err THEN <<>>
         ELSE [time   |-> <<"i64", At(buffer, f.at)>>,
               level  |-> <<"u8", At(buffer, f.at + 1)>>,
               target |-> Lookup(deps, At(buffer, f.at + 2)),
               msg    |-> msg]
    ELSE <<>>

(* parse_custom_instance: an unknown type has no members. *)
ParseCustom(udt, udts, deps, f, buffer) ==
    <<"Object", [type_name |-> udt.name,
                 members |->
        CASE udt.name = "LogStringEvent" -> LogStringMembers(deps, f, buffer)
          [] udt.name = "LogStringInteropEventV2" -> InteropMembers(udts, deps, f, buffer)
          [] udt.name = "LogStringInteropEventV3" -> InteropV3Members(udts, deps, f, buffer)
          [] OTHER -> <<>>]>>

(* hash.insert, which asserts that the id is new. *)
Insert(h, id, value) ==
    [hash |-> (id :> value) @@ h.hash, ok |-> h.ok /\ id \notin DOMAIN h.hash /\ value # Err]

(* read_dependencies *)
ReadDependencies(udts, buffer) ==
    LET Read(h, f) ==
            IF f = Bail THEN [h EXCEPT !.ok = FALSE]
            ELSE LET udt == udts[f.index + 1]
                     id  == At(buffer, f.at)
                 IN  CASE udt.name = "StaticString" ->
                             Insert(h, id, <<"String", Slice(buffer, f.at + 1, f.at + f.size)>>)
                       [] udt.name = "StaticStringDependency" ->
                             Insert(h, id, ParseString(buffer, f.at + 1))
                       [] udt.size = 0 -> [h EXCEPT !.ok = FALSE]
                       [] OTHER -> LET v == ParsePod(udt, udts, h.hash, f.at, buffer)
                                   IN  Insert(h, v[2].members.id[2], v)
    IN  FoldLeft(Read, [hash |-> <<>>, ok |-> TRUE], Frames(udts, buffer))

(* parse_object_buffer, up to the call of the visitor. *)
ParseObjectBuffer(deps, udts, buffer) ==
    LET frames == Frames(udts, buffer)
        Parse(f) == IF f = Bail THEN Err
                    ELSE IF udts[f.index + 1].size = 0
                    THEN ParseCustom(udts[f.index + 1], udts, deps, f, buffer)
                    ELSE ParsePod(udts[f.index + 1], udts, deps, f.at, buffer)
    IN  [i \in DOMAIN frames |-> Parse(frames[i])]

(* Object::get and the conversions of TransitValue. *)
Casts == [u8 |-> {"u8"}, u32 |-> {"u32", "u8"}, u64 |-> {"i64", "u64"}, i64 |-> {"i64", "u64"},
          f64 |-> {"f64"}, String |-> {"String"}, Object |-> {"Object"}]

Get(value, member, type) ==
    IF value[1] # "Object" THEN Err
    ELSE IF member \notin DOMAIN value[2].members THEN Err
    ELSE LET v == value[2].members[member] IN IF v[1] \in Casts[type] THEN v ELSE Err
=============================================================================
