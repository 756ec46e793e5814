--------------------------- MODULE IngestionProofs ---------------------------
(***************************************************************************)
(* Ingestion, for any number of streams, blocks, retries and faults: what  *)
(* the database says of a block is true, each block is recorded at most    *)
(* once, and it can be queried unless its metadata met a fault.            *)
(***************************************************************************)
EXTENDS Ingestion, TLAPS

(* Where a message the client has begun to send can be. *)
ClientInv ==
    /\ sending # None => sending \in pushed
    /\ sending = None => conn = 0
    /\ \A b \in pushed \cap Blocks : \A m \in {Process, Stream(b.stream)} :
          m \in pushed /\ m # sending
    /\ \A m \in pushed : m = sending \/ m \in hurt \/ rows[m] > 0

(* A request at work was sent, and the client waits for it or for none. *)
HandlerInv ==
    \A h \in handlers :
        /\ h.id <= requests
        /\ h.msg \in pushed
        /\ h.id = conn => h.msg = sending
        /\ h.step = "put" => h.msg \in Blocks
        /\ h.step = "insert" /\ h.msg \in Blocks => h.msg \in blobs

(* The request the client waits for is at work. *)
WaitInv == conn # 0 => \E h \in handlers : h.id = conn

(* A block is with the client, with one handler, or in the database. *)
Untouched(b) == rows[b] = 0 /\ \A h \in handlers : h.msg # b

OnceInv ==
    \A b \in Blocks :
        /\ b \notin pushed => Untouched(b)
        /\ sending = b /\ conn = 0 => Untouched(b)
        /\ rows[b] <= 1
        /\ \A g, h \in handlers : g.msg = b /\ h.msg = b => g = h
        /\ \A h \in handlers : h.msg = b => rows[b] = 0

Inv == TypeOK /\ ClientInv /\ HandlerInv /\ WaitInv /\ OnceInv /\ RowHasBlob

-----------------------------------------------------------------------------

(* The kinds of messages are distinct, and none of them is None. *)
LEMMA MessageFacts ==
    /\ Process \in Messages \ Blocks
    /\ Blocks \subseteq Messages
    /\ \A b \in Blocks : Stream(b.stream) \in Messages \ Blocks
    /\ \A m \in Messages : m # None
<1>1. Process \in Messages /\ Blocks \subseteq Messages
  BY DEF Messages
<1>2. \A b \in Blocks : b.kind = "block" /\ b.stream \in Streams
  BY DEF Blocks, Block
<1>3. Process.kind = "process" /\ \A s \in Streams : Stream(s).kind = "stream"
  BY DEF Process, Stream
<1>4. \A s \in Streams : Stream(s) \in Messages
  BY DEF Messages
<1>5. \A m \in Messages : m # None
  BY IngestionAssumption
<1>6. Process \notin Blocks /\ \A s \in Streams : Stream(s) \notin Blocks
  BY <1>2, <1>3
<1>. QED
  BY <1>1, <1>2, <1>4, <1>5, <1>6

(* How the client's variables change when a request fails. *)
LEMMA AfterErrorFacts ==
    ASSUME TypeOK, sending # None, AfterError
    PROVE  /\ sending' \in {sending, None}
           /\ sending \in Blocks => sending' = None
           /\ attempts' \in 0 .. MaxRetries
           /\ conn' = 0
           /\ pushed' = pushed
BY IngestionAssumption DEF TypeOK, AfterError, CanRetry, GiveUp

(* The same when a handler ends. *)
LEMMA AnswerFacts ==
    ASSUME NEW h, TypeOK, Answer(h)
    PROVE  /\ handlers' = handlers \ {h}
           /\ pushed' = pushed
           /\ attempts' \in 0 .. MaxRetries
           /\ \/ conn = h.id /\ sending' = None /\ conn' = 0
              \/ conn # h.id /\ sending' = sending /\ conn' = conn
BY IngestionAssumption DEF TypeOK, Answer, GiveUp, client

(* What a handler's statement may have done to the lake. *)
LEMMA MaybeDoneFacts ==
    ASSUME NEW h \in handlers, Inv, MaybeDone(h)
    PROVE  /\ blobs \subseteq blobs' /\ blobs' \subseteq Blocks
           /\ rows' \in [Messages -> Nat]
           /\ \A m \in Messages : rows'[m] = rows[m]
                 \/ (m = h.msg /\ h.step = "insert" /\ rows'[m] = rows[m] + 1)
           /\ RowHasBlob'
<1>1. h \in Handler /\ h.msg \in Messages
  BY DEF Inv, TypeOK, Handler
<1>2. CASE UNCHANGED lake
  BY <1>1, <1>2 DEF Inv, TypeOK, RowHasBlob, lake
<1>3. CASE h.step = "put" /\ blobs' = blobs \cup {h.msg} /\ UNCHANGED rows
  BY <1>1, <1>3 DEF Inv, TypeOK, HandlerInv, RowHasBlob
<1>4. CASE h.step = "insert" /\ rows' = [rows EXCEPT ![h.msg] = @ + 1] /\ UNCHANGED blobs
  <2>1. rows' \in [Messages -> Nat]
    BY <1>1, <1>4 DEF Inv, TypeOK
  <2>2. \A m \in Messages : rows'[m] = IF m = h.msg THEN rows[m] + 1 ELSE rows[m]
    BY <1>1, <1>4 DEF Inv, TypeOK
  <2>3. h.msg \in Blocks => h.msg \in blobs
    BY <1>4 DEF Inv, HandlerInv
  <2>4. RowHasBlob'
    BY <1>4, <2>2, <2>3, MessageFacts DEF Inv, RowHasBlob
  <2>. QED
    BY <1>4, <2>1, <2>2, <2>4 DEF Inv, TypeOK
<1>. QED
  BY <1>2, <1>3, <1>4 DEF MaybeDone

-----------------------------------------------------------------------------

LEMMA InitInv == Init => Inv
BY IngestionAssumption, MessageFacts DEF Init, Inv, TypeOK, ClientInv, HandlerInv, WaitInv, OnceInv,
   Untouched, RowHasBlob, Handler

(* A handler that ends, whether it answers the client or not.              *)
LEMMA EndOfHandler ==
    ASSUME Inv, NEW h \in handlers, UNCHANGED requests,
           handlers' = handlers \ {h}, pushed' = pushed,
           attempts' \in 0 .. MaxRetries, faults' \in 0 .. MaxFaults,
           hurt' \in SUBSET Messages, hurt \subseteq hurt',
           blobs \subseteq blobs' /\ blobs' \subseteq Blocks,
           rows' \in [Messages -> Nat],
           \A m \in Messages : rows'[m] = rows[m]
                 \/ (m = h.msg /\ h.step = "insert" /\ rows'[m] = rows[m] + 1),
           RowHasBlob',
           \/ conn = h.id /\ sending' = None /\ conn' = 0
                /\ (h.msg \in hurt' \/ rows'[h.msg] > 0)
           \/ conn # h.id /\ sending' = sending /\ conn' = conn
    PROVE  Inv'
<1>. h \in Handler /\ h.msg \in Messages /\ h.id \in Nat \ {0}
  BY DEF Inv, TypeOK, Handler
<1>1. TypeOK'
  BY DEF Inv, TypeOK
<1>2. ClientInv'
  <2>1. \A m \in pushed : m = sending \/ m \in hurt' \/ rows'[m] > 0
    BY DEF Inv, TypeOK, ClientInv
  <2>2. \A m \in Messages : m # None
    BY MessageFacts
  <2>3. CASE sending' = sending /\ conn' = conn
    BY <2>1, <2>3 DEF Inv, ClientInv
  <2>4. CASE conn = h.id /\ sending' = None /\ conn' = 0
                /\ (h.msg \in hurt' \/ rows'[h.msg] > 0)
    <3>1. h.msg = sending
      BY <2>4 DEF Inv, HandlerInv
    <3>2. \A b \in pushed \cap Blocks : \A m \in {Process, Stream(b.stream)} :
             m \in pushed /\ m # None
      BY <2>2 DEF Inv, ClientInv, TypeOK
    <3>. QED
      BY <2>1, <2>4, <3>1, <3>2 DEF ClientInv
  <2>. QED
    BY <2>3, <2>4
<1>3. HandlerInv'
  BY DEF Inv, TypeOK, HandlerInv, Handler
<1>4. WaitInv'
  BY DEF Inv, WaitInv
<1>5. OnceInv'
  <2>. SUFFICES ASSUME NEW b \in Blocks
       PROVE  /\ b \notin pushed => Untouched(b)'
              /\ sending' = b /\ conn' = 0 => Untouched(b)'
              /\ rows'[b] <= 1
              /\ \A f, g \in handlers' : f.msg = b /\ g.msg = b => f = g
              /\ \A g \in handlers' : g.msg = b => rows'[b] = 0
    BY DEF OnceInv
  <2>. b \in Messages /\ b # None /\ rows[b] \in Nat
    BY MessageFacts DEF Inv, TypeOK
  <2>1. CASE h.msg = b
    <3>1. rows[b] = 0 /\ \A g \in handlers' : g.msg # b
      BY <2>1 DEF Inv, OnceInv
    <3>2. b \in pushed /\ ~(sending = b /\ conn = 0)
      BY <2>1 DEF Inv, OnceInv, Untouched
    <3>. QED
      BY <3>1, <3>2
  <2>2. CASE h.msg # b
    <3>1. rows'[b] = rows[b]
      BY <2>2
    <3>. QED
      BY <2>2, <3>1 DEF Inv, OnceInv, Untouched
  <2>. QED
    BY <2>1, <2>2
<1>. QED
  BY <1>1, <1>2, <1>3, <1>4, <1>5 DEF Inv

LEMMA NextInv == Inv /\ [Next]_vars => Inv'
<1>. SUFFICES ASSUME Inv, [Next]_vars PROVE Inv'
  OBVIOUS
<1>. USE IngestionAssumption
<1>1. ASSUME NEW m \in Messages, PushMessage(m) PROVE Inv'
  <2>. m # None /\ Process \notin Blocks /\ Blocks \subseteq Messages
    BY MessageFacts
  <2>1. TypeOK'
    BY <1>1 DEF Inv, TypeOK, PushMessage, lake
  <2>2. ClientInv'
    <3>1. \A b \in pushed' \cap Blocks : \A k \in {Process, Stream(b.stream)} :
             k \in pushed' /\ k # m
      <4>. TAKE b \in pushed' \cap Blocks
      <4>. TAKE k \in {Process, Stream(b.stream)}
      <4>. k \notin Blocks
        BY MessageFacts
      <4>1. CASE b = m
        BY <1>1, <4>1 DEF PushMessage, MayFollow
      <4>2. CASE b # m
        BY <1>1, <4>2 DEF PushMessage, Inv, ClientInv
      <4>. QED
        BY <4>1, <4>2
    <3>. QED
      BY <1>1, <3>1, MessageFacts DEF PushMessage, Ready, Inv, TypeOK, ClientInv, lake
  <2>3. HandlerInv'
    <3>. SUFFICES ASSUME NEW h \in handlers, h.id \in Nat \ {0}
         PROVE  /\ h.id <= requests /\ h.msg \in pushed'
                /\ h.id = 0 => h.msg = m
                /\ h.step = "put" => h.msg \in Blocks
                /\ h.step = "insert" /\ h.msg \in Blocks => h.msg \in blobs
      BY <1>1 DEF PushMessage, lake, HandlerInv, Inv, TypeOK, Handler
    <3>. QED
      BY <1>1 DEF PushMessage, Inv, HandlerInv
  <2>4. OnceInv' /\ RowHasBlob'
    BY <1>1 DEF PushMessage, Ready, lake, Inv, OnceInv, Untouched, RowHasBlob
  <2>5. WaitInv'
    BY <1>1 DEF PushMessage, WaitInv
  <2>. QED
    BY <2>1, <2>2, <2>3, <2>4, <2>5 DEF Inv
<1>2. ASSUME Execute PROVE Inv'
  <2>. DEFINE new == [id |-> requests', msg |-> sending, step |-> FirstStep(sending)]
  <2>1. /\ sending \in Messages /\ sending # None /\ conn = 0
        /\ requests \in Nat /\ requests' = requests + 1 /\ conn' = requests'
        /\ handlers' = handlers \cup {new}
        /\ UNCHANGED <<sending, attempts, pushed, blobs, rows, hurt, faults>>
    BY <1>2 DEF Execute, Inv, TypeOK, lake
  <2>2. /\ new.id = requests' /\ new.msg = sending
        /\ new.step = FirstStep(sending) /\ new \in Handler
    BY <2>1 DEF Handler, FirstStep
  <2>. HIDE DEF new
  <2>3. TypeOK'
    BY <2>1, <2>2 DEF Inv, TypeOK
  <2>4. ClientInv'
    BY <2>1 DEF Inv, ClientInv
  <2>5. HandlerInv'
    <3>. SUFFICES ASSUME NEW h \in handlers'
         PROVE  /\ h.id <= requests' /\ h.msg \in pushed
                /\ h.id = requests' => h.msg = sending
                /\ h.step = "put" => h.msg \in Blocks
                /\ h.step = "insert" /\ h.msg \in Blocks => h.msg \in blobs
      BY <2>1 DEF HandlerInv
    <3>1. CASE h = new
      BY <2>1, <2>2, <3>1 DEF FirstStep, Inv, ClientInv
    <3>2. CASE h \in handlers
      BY <2>1, <3>2 DEF Inv, HandlerInv, TypeOK, Handler
    <3>. QED
      BY <2>1, <3>1, <3>2
  <2>6. OnceInv'
    <3>. SUFFICES ASSUME NEW b \in Blocks
         PROVE  /\ b \notin pushed => Untouched(b)'
                /\ rows[b] <= 1
                /\ \A g, h \in handlers' : g.msg = b /\ h.msg = b => g = h
                /\ \A h \in handlers' : h.msg = b => rows[b] = 0
      BY <2>1 DEF OnceInv
    <3>1. sending = b => Untouched(b)
      BY <2>1 DEF Inv, OnceInv
    <3>2. b \notin pushed => sending # b
      BY <2>1 DEF Inv, ClientInv
    <3>. QED
      BY <2>1, <2>2, <3>1, <3>2 DEF Inv, OnceInv, Untouched
  <2>7. RowHasBlob'
    BY <2>1 DEF Inv, RowHasBlob
  <2>8. WaitInv'
    BY <2>1, <2>2 DEF WaitInv
  <2>. QED
    BY <2>3, <2>4, <2>5, <2>6, <2>7, <2>8 DEF Inv
<1>3. ASSUME sending # None, AfterError, Fault({sending}), UNCHANGED <<requests, handlers, lake>>
      PROVE  Inv'
  <2>1. /\ sending' \in {sending, None} /\ (sending \in Blocks => sending' = None)
        /\ attempts' \in 0 .. MaxRetries /\ conn' = 0 /\ pushed' = pushed
    BY <1>3, AfterErrorFacts DEF Inv
  <2>2. /\ faults' \in 0 .. MaxFaults /\ hurt' = hurt \cup {sending}
        /\ requests' = requests /\ handlers' = handlers /\ blobs' = blobs /\ rows' = rows
    BY <1>3 DEF Fault, Inv, TypeOK, lake
  <2>3. TypeOK'
    BY <1>3, <2>1, <2>2 DEF Inv, TypeOK
  <2>4. ClientInv'
    BY <1>3, <2>1, <2>2, MessageFacts DEF Inv, TypeOK, ClientInv
  <2>5. HandlerInv'
    BY <2>1, <2>2 DEF Inv, TypeOK, HandlerInv, Handler
  <2>6. OnceInv' /\ RowHasBlob'
    BY <2>1, <2>2, MessageFacts DEF Inv, OnceInv, Untouched, RowHasBlob
  <2>7. WaitInv'
    BY <2>1 DEF WaitInv
  <2>. QED
    BY <2>3, <2>4, <2>5, <2>6, <2>7 DEF Inv
<1>4. ASSUME NEW h \in handlers, PutBlob(h) PROVE Inv'
  <2>. DEFINE new == [h EXCEPT !.step = "insert"]
  <2>1. /\ h \in Handler /\ h.msg \in Blocks /\ blobs' = blobs \cup {h.msg}
        /\ handlers' = (handlers \ {h}) \cup {new}
        /\ UNCHANGED <<sending, attempts, conn, pushed, requests, rows, hurt, faults>>
    BY <1>4 DEF PutBlob, Inv, TypeOK, HandlerInv, client
  <2>2. new \in Handler /\ new.id = h.id /\ new.msg = h.msg /\ new.step = "insert"
    BY <2>1 DEF Handler
  <2>. HIDE DEF new
  <2>3. TypeOK'
    BY <2>1, <2>2 DEF Inv, TypeOK
  <2>4. ClientInv'
    BY <2>1 DEF Inv, ClientInv
  <2>5. HandlerInv'
    <3>. SUFFICES ASSUME NEW g \in handlers'
         PROVE  /\ g.id <= requests /\ g.msg \in pushed
                /\ g.id = conn => g.msg = sending
                /\ g.step = "put" => g.msg \in Blocks
                /\ g.step = "insert" /\ g.msg \in Blocks => g.msg \in blobs'
      BY <2>1 DEF HandlerInv
    <3>1. CASE g = new
      BY <2>1, <2>2, <3>1 DEF Inv, HandlerInv
    <3>2. CASE g \in handlers
      BY <2>1, <3>2 DEF Inv, HandlerInv
    <3>. QED
      BY <2>1, <3>1, <3>2
  <2>6. OnceInv'
    BY <2>1, <2>2 DEF Inv, OnceInv, Untouched
  <2>7. RowHasBlob'
    BY <2>1 DEF Inv, RowHasBlob
  <2>8. WaitInv'
    BY <2>1, <2>2 DEF Inv, WaitInv
  <2>. QED
    BY <2>3, <2>4, <2>5, <2>6, <2>7, <2>8 DEF Inv
<1>5. ASSUME NEW h \in handlers, InsertRow(h) PROVE Inv'
  <2>1. MaybeDone(h)
    BY <1>5 DEF InsertRow, MaybeDone
  <2>2. h.msg \in Messages /\ rows'[h.msg] > 0
    BY <1>5 DEF InsertRow, Inv, TypeOK, Handler
  <2>3. Answer(h) /\ UNCHANGED <<requests, hurt, faults>>
    BY <1>5 DEF InsertRow
  <2>4. TypeOK
    BY DEF Inv
  <2>5. /\ handlers' = handlers \ {h} /\ pushed' = pushed
        /\ attempts' \in 0 .. MaxRetries
        /\ \/ conn = h.id /\ sending' = None /\ conn' = 0
           \/ conn # h.id /\ sending' = sending /\ conn' = conn
    BY <2>3, <2>4, AnswerFacts
  <2>6. faults' \in 0 .. MaxFaults /\ hurt' \in SUBSET Messages /\ hurt \subseteq hurt'
    BY <2>3, <2>4 DEF TypeOK
  <2>7. /\ blobs \subseteq blobs' /\ blobs' \subseteq Blocks
        /\ rows' \in [Messages -> Nat]
        /\ \A m \in Messages : rows'[m] = rows[m]
              \/ (m = h.msg /\ h.step = "insert" /\ rows'[m] = rows[m] + 1)
        /\ RowHasBlob'
    BY <2>1, MaybeDoneFacts
  <2>. QED
    BY <2>2, <2>3, <2>5, <2>6, <2>7, EndOfHandler
<1>6. ASSUME NEW h \in handlers, StatementError(h) PROVE Inv'
  <2>1. MaybeDone(h) /\ Answer(h) /\ UNCHANGED requests /\ TypeOK
    BY <1>6 DEF StatementError, Inv
  <2>2. /\ faults' \in 0 .. MaxFaults /\ hurt' \in SUBSET Messages
        /\ hurt \subseteq hurt' /\ h.msg \in hurt'
    BY <1>6 DEF StatementError, Fault, Inv, TypeOK, Handler
  <2>3. /\ handlers' = handlers \ {h} /\ pushed' = pushed
        /\ attempts' \in 0 .. MaxRetries
        /\ \/ conn = h.id /\ sending' = None /\ conn' = 0
           \/ conn # h.id /\ sending' = sending /\ conn' = conn
    BY <2>1, AnswerFacts
  <2>4. /\ blobs \subseteq blobs' /\ blobs' \subseteq Blocks
        /\ rows' \in [Messages -> Nat]
        /\ \A m \in Messages : rows'[m] = rows[m]
              \/ (m = h.msg /\ h.step = "insert" /\ rows'[m] = rows[m] + 1)
        /\ RowHasBlob'
    BY <2>1, MaybeDoneFacts
  <2>. QED
    BY <2>1, <2>2, <2>3, <2>4, EndOfHandler
<1>7. ASSUME NEW h \in handlers, Cancel(h) PROVE Inv'
  <2>1. /\ MaybeDone(h) /\ handlers' = handlers \ {h}
        /\ conn # h.id
        /\ UNCHANGED <<sending, attempts, conn, pushed, requests, hurt, faults>>
    BY <1>7 DEF Cancel, client
  <2>2. /\ faults' \in 0 .. MaxFaults /\ hurt' \in SUBSET Messages
        /\ hurt \subseteq hurt' /\ attempts' \in 0 .. MaxRetries
    BY <2>1 DEF Inv, TypeOK
  <2>3. /\ blobs \subseteq blobs' /\ blobs' \subseteq Blocks
        /\ rows' \in [Messages -> Nat]
        /\ \A m \in Messages : rows'[m] = rows[m]
              \/ (m = h.msg /\ h.step = "insert" /\ rows'[m] = rows[m] + 1)
        /\ RowHasBlob'
    BY <2>1, MaybeDoneFacts
  <2>. QED
    BY <2>1, <2>2, <2>3, EndOfHandler
<1>8. ASSUME Crash PROVE Inv'
  <2>1. /\ handlers' = {} /\ requests' = requests /\ blobs' = blobs /\ rows' = rows
        /\ faults' \in 0 .. MaxFaults /\ hurt \subseteq hurt' /\ hurt' \subseteq Messages
    BY <1>8 DEF Crash, Fault, Inv, TypeOK, lake, Handler
  <2>2. CASE conn = 0 /\ UNCHANGED client
    BY <2>1, <2>2 DEF client, Inv, TypeOK, ClientInv, HandlerInv, WaitInv, OnceInv, Untouched, RowHasBlob
  <2>3. CASE conn # 0 /\ AfterError
    <3>1. sending # None /\ sending \in hurt'
      BY <1>8, <2>3 DEF Crash, Fault, Inv, ClientInv, WaitInv, HandlerInv
    <3>2. /\ sending' \in {sending, None} /\ (sending \in Blocks => sending' = None)
          /\ attempts' \in 0 .. MaxRetries /\ conn' = 0 /\ pushed' = pushed
      BY <2>3, <3>1, AfterErrorFacts DEF Inv
    <3>3. TypeOK'
      BY <2>1, <3>2 DEF Inv, TypeOK
    <3>4. ClientInv'
      BY <2>1, <3>1, <3>2, MessageFacts DEF Inv, TypeOK, ClientInv
    <3>5. HandlerInv' /\ WaitInv'
      BY <2>1, <3>2 DEF HandlerInv, WaitInv
    <3>6. OnceInv' /\ RowHasBlob'
      BY <2>1, <3>2, MessageFacts DEF Inv, OnceInv, Untouched, RowHasBlob
    <3>. QED
      BY <3>3, <3>4, <3>5, <3>6 DEF Inv
  <2>. QED
    BY <1>8, <2>2, <2>3 DEF Crash
<1>9. CASE UNCHANGED vars
  BY <1>9 DEF vars, client, lake, Inv, TypeOK, ClientInv, HandlerInv, WaitInv, OnceInv, Untouched, RowHasBlob
<1>. QED
  BY <1>1, <1>2, <1>3, <1>4, <1>5, <1>6, <1>7, <1>8, <1>9
     DEF Next, Handle, Refused, ConnectionLost, Inv, ClientInv

-----------------------------------------------------------------------------

(* The inductive invariant holds in every reachable state. *)
THEOREM Invariance == Spec => []Inv
BY InitInv, NextInv, PTL DEF Spec

(***************************************************************************)
(* Type correctness, the bound on the attempts of the retry strategy       *)
(* included.                                                               *)
(***************************************************************************)
THEOREM TypeCorrect == Spec => []TypeOK
<1>1. Inv => TypeOK
  BY DEF Inv
<1>. QED
  BY <1>1, Invariance, PTL

(***************************************************************************)
(* insert_block: a row is never without its payload, whichever step of the *)
(* handler fails, is cancelled or is cut off by a crash.                   *)
(***************************************************************************)
THEOREM RowsHaveBlobs == Spec => []RowHasBlob
<1>1. Inv => RowHasBlob
  BY DEF Inv
<1>. QED
  BY <1>1, Invariance, PTL

(***************************************************************************)
(* insert_block: no block has two rows, because push_block does not retry  *)
(* and the one handler it may leave behind inserts once.                   *)
(***************************************************************************)
THEOREM BlocksRecordedOnce == Spec => []NoDuplicateBlock
<1>1. Inv => NoDuplicateBlock
  BY DEF Inv, OnceInv, NoDuplicateBlock
<1>. QED
  BY <1>1, Invariance, PTL

(***************************************************************************)
(* find_stream and find_process succeed for every recorded block whose     *)
(* stream and process met no fault.                                        *)
(***************************************************************************)
THEOREM BlocksDescribed == Spec => []BlockIsDescribed
<1>1. Inv => BlockIsDescribed
  <2>. SUFFICES ASSUME Inv, NEW b \in Blocks, rows[b] > 0,
                       NEW m \in {Process, Stream(b.stream)}
                PROVE  m \in hurt \/ rows[m] > 0
    BY DEF BlockIsDescribed
  <2>1. b \in pushed
    BY DEF Inv, OnceInv, Untouched
  <2>. QED
    BY <2>1 DEF Inv, ClientInv
<1>. QED
  BY <1>1, Invariance, PTL
=============================================================================
