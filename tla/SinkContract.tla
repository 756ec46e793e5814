----------------------------- MODULE SinkContract -----------------------------
(***************************************************************************)
(* What an event sink that hands its messages to one thread promises to    *)
(* the dispatch, whatever the number of its callers: a first-in first-out  *)
(* queue, of which the thread tries to send the head, a bounded number of  *)
(* times, before it goes on to the next message; and which loses what it   *)
(* holds when the thread goes away.  Nothing is invented, reordered or     *)
(* sent after its successor.                                               *)
(***************************************************************************)
EXTENDS Naturals, Sequences

CONSTANTS
    Message,     \* what the dispatch may give the sink
    Retried,     \* the messages that are tried again when sending fails
    MaxRetries,  \* how many times
    None         \* no request yet

VARIABLES
    open,        \* the thread is there to take messages
    pending,     \* accepted and not done with, oldest first
    tries,       \* how many times the head of pending was tried already
    request      \* the last message that reached the network

contract == <<open, pending, tries, request>>

MaxTries(m) == IF m \in Retried THEN MaxRetries + 1 ELSE 1

Init ==
    /\ open = TRUE
    /\ pending = <<>>
    /\ tries = 0
    /\ request = None

Accept ==
    /\ open
    /\ pending' # <<>>
    /\ LET m == pending'[Len(pending')] IN m \in Message /\ pending' = Append(pending, m)
    /\ UNCHANGED <<open, tries, request>>

(* One try at sending the head: it may be dropped, or fail on the way. *)
Try ==
    /\ pending # <<>>
    /\ tries < MaxTries(Head(pending))
    /\ request' \in {request, Head(pending)}
    /\ UNCHANGED open

Retry == Try /\ tries' = tries + 1 /\ UNCHANGED pending

(* The last try, of which there is one for every message. *)
Settle == Try /\ tries' = 0 /\ pending' = Tail(pending)

(* The thread ends between two messages. *)
Close ==
    /\ open
    /\ tries = 0
    /\ open' = FALSE
    /\ pending' = <<>>
    /\ UNCHANGED <<tries, request>>

Next == Accept \/ Retry \/ Settle \/ Close

Spec == Init /\ [][Next]_contract
=============================================================================
