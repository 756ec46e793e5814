------------------------------ MODULE Ingestion ------------------------------
(***************************************************************************)
(* One instrumented process and the ingestion service                      *)
(* (rust/telemetry-ingestion-srv/src/main.rs,                              *)
(* rust/ingestion/src/web_ingestion_service.rs).                           *)
(*                                                                         *)
(* The client is the sink thread of http_event_sink.rs reduced to what the *)
(* service sees of it: one request at a time, the process before its       *)
(* streams and a stream before its blocks; metadata is sent again when the *)
(* connection fails, a block never.  A handler of the service that fails   *)
(* logs the error and answers like one that succeeded.  It may outlive its *)
(* connection, be cancelled at any await, or die with the service.         *)
(***************************************************************************)
EXTENDS Integers, FiniteSets

CONSTANTS
    Streams,
    None,
    MaxRetries,   \* length of the metadata retry strategy
    MaxBlocks,    \* bound: blocks per stream
    MaxFaults     \* bound: faults of network, storage and service

Process     == [kind |-> "process", stream |-> None, seq |-> 0]
Stream(s)   == [kind |-> "stream", stream |-> s, seq |-> 0]
Block(s, n) == [kind |-> "block", stream |-> s, seq |-> n]

Blocks   == {Block(s, n) : s \in Streams, n \in 1 .. MaxBlocks}
Messages == {Process} \cup {Stream(s) : s \in Streams} \cup Blocks

ASSUME IngestionAssumption ==
    /\ None \notin Streams \cup Messages
    /\ MaxRetries \in Nat /\ MaxBlocks \in Nat /\ MaxFaults \in Nat

VARIABLES
    sending,    \* the message the client is busy with
    attempts,   \* retries of it so far
    conn,       \* the request it waits for; 0 if it is about to post one
    pushed,     \* what it has begun to send
    requests,   \* requests that reached the service
    handlers,   \* those being handled
    blobs,      \* object store: blocks with a payload
    rows,       \* database: rows per message
    hurt,       \* history: messages that met a fault
    faults

client  == <<sending, attempts, conn, pushed>>
lake    == <<blobs, rows>>
vars    == <<client, requests, handlers, lake, hurt, faults>>

Handler == [id : Nat \ {0}, msg : Messages, step : {"put", "insert"}]

(***************************************************************************)
(* Every variable stays in its domain; a message is sent at most once more *)
(* than the retry strategy is long.                                        *)
(***************************************************************************)
TypeOK ==
    /\ sending \in Messages \cup {None}
    /\ attempts \in 0 .. MaxRetries
    /\ conn \in 0 .. requests
    /\ pushed \subseteq Messages
    /\ requests \in Nat
    /\ handlers \subseteq Handler
    /\ blobs \subseteq Blocks
    /\ rows \in [Messages -> Nat]
    /\ hurt \subseteq Messages
    /\ faults \in 0 .. MaxFaults

Init ==
    /\ sending = None
    /\ attempts = 0
    /\ conn = 0
    /\ pushed = {}
    /\ requests = 0
    /\ handlers = {}
    /\ blobs = {}
    /\ rows = [m \in Messages |-> 0]
    /\ hurt = {}
    /\ faults = 0

Fault(ms) ==
    /\ faults < MaxFaults
    /\ faults' = faults + 1
    /\ hurt' = hurt \cup ms

-----------------------------------------------------------------------------
(***************************************************************************)
(* The client.                                                             *)
(***************************************************************************)

(* The order in which the queue holds them; blocks in between may have     *)
(* been dropped.                                                           *)
MayFollow(m) ==
    /\ m # Process => Process \in pushed
    /\ m \in Blocks =>
          /\ Stream(m.stream) \in pushed
          /\ \A b \in pushed \cap Blocks : b.stream = m.stream => b.seq < m.seq

(* Mutant: the client does not wait for the answer. *)
ReadyAlways == TRUE

Ready == sending = None

PushMessage(m) ==
    /\ Ready
    /\ m \notin pushed
    /\ MayFollow(m)
    /\ sending' = m
    /\ attempts' = 0
    /\ conn' = 0
    /\ pushed' = pushed \cup {m}
    /\ UNCHANGED <<requests, handlers, lake, hurt, faults>>

FirstStep(m) == IF m \in Blocks THEN "put" ELSE "insert"

Execute ==
    /\ sending # None
    /\ conn = 0
    /\ requests' = requests + 1
    /\ conn' = requests'
    /\ handlers' = handlers \cup {[id |-> requests', msg |-> sending,
                                   step |-> FirstStep(sending)]}
    /\ UNCHANGED <<sending, attempts, pushed, lake, hurt, faults>>

(* Mutant: blocks are sent again like metadata. *)
CanRetryAnything == attempts < MaxRetries

CanRetry == sending \notin Blocks /\ attempts < MaxRetries

GiveUp == sending' = None /\ attempts' = 0

(* client.execute returned an error. *)
AfterError ==
    /\ \/ CanRetry /\ attempts' = attempts + 1 /\ UNCHANGED sending
       \/ ~CanRetry /\ GiveUp
    /\ conn' = 0
    /\ UNCHANGED pushed

(* No connection, or it breaks before the whole request has arrived. *)
Refused ==
    /\ sending # None
    /\ conn = 0
    /\ Fault({sending})
    /\ AfterError
    /\ UNCHANGED <<requests, handlers, lake>>

(* The answer does not arrive; the handler may still be at work. *)
ConnectionLost ==
    /\ conn # 0
    /\ Fault({sending})
    /\ AfterError
    /\ UNCHANGED <<requests, handlers, lake>>

-----------------------------------------------------------------------------
(***************************************************************************)
(* The service.                                                            *)
(***************************************************************************)

(* Mutant: an error is reported to nobody. *)
AnswerNobody(h) ==
    /\ handlers' = handlers \ {h}
    /\ UNCHANGED client

(* The handler ends and its answer, whatever happened, is 200.             *)
Answer(h) ==
    /\ handlers' = handlers \ {h}
    /\ \/ conn = h.id /\ GiveUp /\ conn' = 0 /\ UNCHANGED pushed
       \/ conn # h.id /\ UNCHANGED client

(* Mutant: nothing is recorded once the payload is written. *)
PutBlobOnly(h) ==
    /\ h.step = "put"
    /\ blobs' = blobs \cup {h.msg}
    /\ Answer(h)
    /\ UNCHANGED <<requests, rows, hurt, faults>>

PutBlob(h) ==
    /\ h.step = "put"
    /\ blobs' = blobs \cup {h.msg}
    /\ handlers' = (handlers \ {h}) \cup {[h EXCEPT !.step = "insert"]}
    /\ UNCHANGED <<client, requests, rows, hurt, faults>>

InsertRow(h) ==
    /\ h.step = "insert"
    /\ rows' = [rows EXCEPT ![h.msg] = @ + 1]
    /\ Answer(h)
    /\ UNCHANGED <<requests, blobs, hurt, faults>>

(* What the statement under way of a handler that ends may have done. *)
MaybeDone(h) ==
    \/ UNCHANGED lake
    \/ h.step = "put" /\ blobs' = blobs \cup {h.msg} /\ UNCHANGED rows
    \/ h.step = "insert" /\ rows' = [rows EXCEPT ![h.msg] = @ + 1] /\ UNCHANGED blobs

(* Mutant: a payload that cannot be written does not end the handler. *)
StatementErrorGoOn(h) ==
    /\ Fault({h.msg})
    /\ handlers' = (handlers \ {h}) \cup
                      (IF h.step = "put" THEN {[h EXCEPT !.step = "insert"]} ELSE {})
    /\ UNCHANGED <<client, requests, lake>>

StatementError(h) ==
    /\ Fault({h.msg})
    /\ MaybeDone(h)
    /\ Answer(h)
    /\ UNCHANGED requests

(* The connection of this request is gone, and the server notices. *)
Cancel(h) ==
    /\ conn # h.id
    /\ MaybeDone(h)
    /\ handlers' = handlers \ {h}
    /\ UNCHANGED <<client, requests, hurt, faults>>

(* The service dies and is started again. *)
Crash ==
    /\ handlers # {}
    /\ Fault({h.msg : h \in handlers})
    /\ handlers' = {}
    /\ \/ conn # 0 /\ AfterError
       \/ conn = 0 /\ UNCHANGED client
    /\ UNCHANGED <<requests, lake>>

-----------------------------------------------------------------------------

Handle(h) == PutBlob(h) \/ InsertRow(h)

Next ==
    \/ \E m \in Messages : PushMessage(m)
    \/ Execute
    \/ Refused
    \/ ConnectionLost
    \/ \E h \in handlers : Handle(h) \/ StatementError(h) \/ Cancel(h)
    \/ Crash

Spec == Init /\ [][Next]_vars

(* The client posts what it holds, and a handler gets on. *)
FairSpec ==
    /\ Spec
    /\ WF_vars(Execute)
    /\ WF_vars(\E h \in handlers : Handle(h))

-----------------------------------------------------------------------------
(***************************************************************************)
(* Properties                                                              *)
(***************************************************************************)

(***************************************************************************)
(* A block that a query finds in the database has its payload in the       *)
(* object store, whatever fails, is cancelled or crashes on the way.       *)
(***************************************************************************)
RowHasBlob == \A b \in Blocks : rows[b] > 0 => b \in blobs

(***************************************************************************)
(* insert_block does not look for an earlier row: that no block is         *)
(* recorded twice rests on the client, which must not repeat a block while *)
(* handlers outlive their connections.                                     *)
(***************************************************************************)
NoDuplicateBlock == \A b \in Blocks : rows[b] <= 1

(***************************************************************************)
(* A block can be queried, its stream and process are there to find,       *)
(* unless one of these two met a fault itself; faults of other requests do *)
(* not matter.                                                             *)
(***************************************************************************)
BlockIsDescribed ==
    \A b \in Blocks :
        rows[b] > 0 =>
            \A m \in {Process, Stream(b.stream)} : m \in hurt \/ rows[m] > 0

(***************************************************************************)
(* What the client sends is recorded in the end, unless its own request    *)
(* met a fault.                                                            *)
(***************************************************************************)
SentIsRecorded ==
    \A m \in Messages : (sending = m) ~> (rows[m] > 0 \/ m \in hurt)

(***************************************************************************)
(* The client gets past every message, fault or not.                       *)
(***************************************************************************)
ClientGetsOn == \A m \in Messages : (sending = m) ~> (sending # m)
=============================================================================
