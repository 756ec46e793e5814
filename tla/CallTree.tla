------------------------------ MODULE CallTree ------------------------------
(***************************************************************************)
(* CallTreeBuilder (rust/analytics/src/call_tree.rs): the begin and end    *)
(* events of one thread, in order, become a tree of spans cut at a query   *)
(* range.  Spans whose begin lies before the range are discovered at their *)
(* end, when the thread's node becomes that span and gets a new parent.    *)
(***************************************************************************)
EXTENDS Integers, Sequences, SequencesExt

CONSTANT RootHash    \* hash of the thread's name

VARIABLES
    range,      \* begin and end in nanoseconds, and the limit of spans
    nb_spans,
    stack,      \* the open nodes, each with its finished children
    cont,       \* what the last handler returned: TRUE to continue
    mismatch    \* a handler failed with "top scope mismatch"

builder == <<range, nb_spans, stack, cont, mismatch>>

(* The children are kept as the rows of all that is below the node, parents *)
(* first, with their depth below it.                                       *)
Node(id, hash, begin, end, children) ==
    [id |-> id, hash |-> hash, begin |-> begin, end |-> end, children |-> children]

(* The thread's own node has no id; its row says -1. *)
ThreadNode(children) == Node(-1, RootHash, range.begin, range.end, children)

NewBuilder(begin, end, limit) ==
    /\ range' = [begin |-> begin, end |-> end, limit |-> limit]
    /\ nb_spans' = 0
    /\ stack' = <<>>
    /\ cont' = TRUE
    /\ UNCHANGED mismatch

(* What a handler may answer without having changed the tree. *)
Answer(c) == cont' = c /\ UNCHANGED <<range, nb_spans, stack, mismatch>>

LimitReached == nb_spans >= range.limit
InRange(t)   == range.begin <= t /\ t <= range.end

PushSpan(id, hash, t) ==
    /\ stack' = Append(stack, Node(id, hash, t, range.end, <<>>))
    /\ nb_spans' = nb_spans + 1
    /\ cont' = TRUE
    /\ UNCHANGED <<range, mismatch>>

on_begin_thread_scope(id, hash, t) ==
    \/ LimitReached /\ Answer(FALSE)
    \/ ~LimitReached /\ t < range.begin /\ Answer(TRUE)
    \/ ~LimitReached /\ t > range.end /\ Answer(FALSE)
    \/ ~LimitReached /\ InRange(t) /\ PushSpan(id, hash, t)

(* The rows of a tree, parents first; a child's parent is only known now,  *)
(* as the thread's node may still become a span when it has children.      *)
for_each_node_in_tree(node, parent, depth) ==
    <<[id |-> node.id, parent |-> parent, depth |-> depth, hash |-> node.hash,
       begin |-> node.begin, end |-> node.end]>>
    \o [i \in DOMAIN node.children |->
          LET row == node.children[i] IN
          [row EXCEPT !.parent = IF row.depth = 1 THEN node.id ELSE @, !.depth = @ + depth]]

(* Mutant: a child is put before its elder siblings. *)
PushChildFirst(parent, node) ==
    [parent EXCEPT !.children = for_each_node_in_tree(node, parent.id, 1) \o @]

PushChild(parent, node) ==
    [parent EXCEPT !.children = @ \o for_each_node_in_tree(node, parent.id, 1)]

(* rest is what is left of the stack below node. *)
add_child_to_top(rest, node) ==
    /\ \/ /\ rest = <<>>
          /\ stack' = <<PushChild(ThreadNode(<<>>), node)>>
          /\ nb_spans' = nb_spans + 1
       \/ /\ rest # <<>>
          /\ stack' = Append(Front(rest), PushChild(Last(rest), node))
          /\ UNCHANGED nb_spans
    /\ cont' = TRUE
    /\ UNCHANGED <<range, mismatch>>

(* Mutant: the end of a span that began before the range is passed over. *)
EndBegunBeforeIgnored(id, hash, t) ==
    /\ Last(stack).hash = RootHash
    /\ Answer(TRUE)

(* The end of a span that began before the range and has children in it. *)
EndBegunBefore(id, hash, t) ==
    /\ Last(stack).hash = RootHash
    /\ add_child_to_top(Front(stack),
                        [Last(stack) EXCEPT !.id = id, !.hash = hash, !.end = t])

EndTop(hash, t) ==
    /\ Last(stack).hash = hash
    /\ add_child_to_top(Front(stack), [Last(stack) EXCEPT !.end = t])

EndMismatch(hash) ==
    /\ Last(stack).hash \notin {hash, RootHash}
    /\ mismatch' = TRUE
    /\ UNCHANGED <<range, nb_spans, stack, cont>>

on_end_thread_scope(id, hash, t) ==
    \/ t < range.begin /\ Answer(TRUE)
    \/ t > range.end /\ Answer(FALSE)
    \/ InRange(t) /\ stack = <<>> /\ LimitReached /\ Answer(FALSE)
    \/ /\ InRange(t) /\ stack = <<>> /\ ~LimitReached
       /\ add_child_to_top(<<>>, Node(id, hash, range.begin, t, <<>>))
    \/ /\ InRange(t) /\ stack # <<>>
       /\ EndTop(hash, t) \/ EndBegunBefore(id, hash, t) \/ EndMismatch(hash)

(* finish: every open node becomes the last child of the one below it. *)
finish[i \in 1 .. Len(stack)] ==
    IF i = Len(stack) THEN stack[i] ELSE PushChild(stack[i], finish[i + 1])

(* SpanRecordBuilder::append_call_tree: a builder that saw no span in the  *)
(* range has no tree.                                                      *)
append_call_tree(rows) ==
    IF stack = <<>> THEN rows ELSE rows \o for_each_node_in_tree(finish[1], 0, 0)
=============================================================================
